---- MODULE Spec2Model ----
(***************************************************************************)
(* Verification model of the plane-rectification geometry core of          *)
(* extreme_two_view_matching_research:                                     *)
(*   - connected_components.py : get_connected_components, flood_fill,     *)
(*                               circle_like_ones                          *)
(*   - spherical_kmeans.py     : cluster (seeding), kmeans                 *)
(*   - opt_covering.py         : distance_matrix, vote                     *)
(*   - affnet.py               : compose_lin_maps, decompose_lin_maps,     *)
(*                               get_kpts_normals_indices                  *)
(*   - transforms.py           : get_rectification_rotations,              *)
(*                               decompose_homographies                    *)
(*   - pipeline.py             : run_matching_pipeline,                    *)
(*                               run_sequential_pipeline, process_image    *)
(* Every component has its own specification (SpecCC, SpecKM, SpecCluster, *)
(* SpecDist, SpecVote, SpecLinMaps, SpecRect, SpecHom, SpecPipeline,       *)
(* SpecProcess, SpecMatching, SpecKpts) over one shared set of variables;  *)
(* the variables of the components a specification does not run stay at    *)
(* their idle values.                                                      *)
(***************************************************************************)
EXTENDS Integers, Sequences, FiniteSets, TLC

VARIABLES
    \* ---- connected_components.get_connected_components ----
    normal_indices,          \* the label image: pixel -> cluster index
    valid_indices,           \* the list of valid cluster indices
    fraction_threshold,      \* <<num, den>>: the fraction num/den
    closing_size,            \* 0 models None
    flood_filling,           \* BOOLEAN
    connectivity,            \* 4 or 8
    out,                     \* the output image: pixel -> global region ID
    out_valid_indices_dict,  \* global region ID -> cluster index
    out_valid_indices_counter,
    cc_i,                    \* position of the for loop in valid_indices
    cc_pc,                   \* "idle" | "loop" | "done" | "IndexError"
    cc_input,                \* cluster index -> the binary mask it was labelled from
    \* ---- spherical_kmeans.cluster / kmeans ----
    normals,                 \* pixel class -> number of pixels of the class
    max_iter,
    cluster_centers,         \* sequence of centers (a direction or NaN)
    old_arg_mins,            \* <<>> (None) or <<the previous filtered assignment>>
    km_iter,                 \* loop passes done
    arg_mins,                \* the returned labels
    km_pc,                   \* "idle" | "loop" | "after" | "done"
    sortd,                   \* the scan order of the candidate seeds
    cluster_centers_old,     \* the seeds chosen in phase 1
    points_list,             \* support of each chosen seed
    cl_pc,                   \* "idle" | "phase1" | "kmeans" | "done" | "RuntimeError"
    \* ---- opt_covering.distance_matrix ----
    dm_t1, dm_t2, dm_phi1, dm_phi2,
    dm_dist,                 \* the returned matrix of rationals
    dm_pc,                   \* "idle" | "call" | "done"
    \* ---- opt_covering.vote ----
    vt_centers,              \* sequence of <<tilt, phi>>
    vt_data,                 \* sequence of <<tilt, phi>>
    vt_r,                    \* the radius r, a rational
    fraction_th,             \* a rational
    iter_th,
    filtered_data,           \* the remaining points
    iter_finished,
    winning_centers,         \* sequence of <<tilt, phi>>
    rect_fraction,           \* a rational
    vt_pc,                   \* "idle" | "loop" | "done"
    \* ---- affnet.compose_lin_maps / decompose_lin_maps ----
    lm_ts, lm_phis,          \* the batch of tilts and of angles phi
    lm_lambdas, lm_psis,     \* the batch of scales and of angles psi; <<>> is None
    l_maps,                  \* the batch of 2x2 maps given to decompose_lin_maps
    asserts,                 \* BOOLEAN
    lm_s,                    \* the normalised singular values of each map
    lm_out,                  \* the returned <<lambda, psi, t, phi>> of each map
    lm_pc,                   \* "idle" | "call" | "done" | "RuntimeError" | "AssertionError"
    \* ---- transforms.get_rectification_rotations ----
    rr_normals,              \* the batch of unit normals
    rr_R,                    \* the returned batch of 3x3 matrices
    rr_pc,                   \* "idle" | "call" | "done" | "AssertionError"
    rr_failed,               \* the condition of the assert that failed, "" if none
    \* ---- transforms.decompose_homographies ----
    Hs,                      \* the batch of 3x3 homographies
    pure_homographies,
    affines,
    dh_pc,                   \* "idle" | "call" | "done" | "RuntimeError"
    \* ---- pipeline.run_matching_pipeline / run_sequential_pipeline ----
    pl_mode,                 \* "matching" | "sequential"
    pl_items,                \* what happens when each pair or image is processed
    matching_limit,          \* -1 models None
    pl_idx,                  \* position of the for loop
    processed_pairs,
    pl_entered,              \* the items whose processing was started
    pl_completed,            \* the items processed to the end
    stats_saved,             \* BOOLEAN: the statistics were written
    pl_pc,                   \* "idle" | "loop" | "done" | an escaped exception
    \* ---- pipeline.Pipeline.process_image: the choice of the valid clusters ----
    normals_clusters_repr,   \* the representative normal of each cluster
    plane_threshold_degrees, \* Config.plane_threshold_degrees
    valid_normal_indices,    \* the cluster indices chosen so far
    pi_i,                    \* position of the for loop over the clusters
    pi_pc,                   \* "idle" | "select" | "extract" | "done"
    \* ---- pipeline.run_matching_pipeline: which pairs are taken up ----
    scene_length,            \* len(scene_info.img_pairs_lists)
    matching_difficulties,   \* the list of difficulties gone through
    matching_pairs,          \* <<>> (None) or <<the set of pair keys>>
    already_processed,       \* the set of pair keys taken up so far
    mp_d,                    \* position of the loop over the difficulties
    mp_idx,                  \* position of the loop over the pairs of the difficulty
    mp_lens,                 \* the number of pairs listed for each difficulty
    mp_taken,                \* pair key -> the difficulties it was taken up under
    mp_skipped,              \* the <<pair key, difficulty>> passed over (line 1050)
    mp_failed,               \* the pair keys whose processing raised
    mp_completed,            \* the pairs of the difficulty processed to the end
    mp_pc,                   \* "idle" | "difficulties" | "pairs" | "done"
    \* ---- affnet.get_kpts_normals_indices ----
    components_indices,      \* the component image: pixel -> component ID
    valid_components_dict,   \* component ID -> cluster index
    laffs_no_scale,          \* the keypoints: <<x, y>> in halves of a pixel
    kp_read,                 \* the <<row, column>> read for each keypoint
    normals_indices,         \* the returned cluster index of each keypoint
    kp_pc                    \* "idle" | "done"

ccVars == <<normal_indices, valid_indices, fraction_threshold, closing_size,
            flood_filling, connectivity, out, out_valid_indices_dict,
            out_valid_indices_counter, cc_i, cc_pc, cc_input>>
kmVars == <<normals, max_iter, cluster_centers, old_arg_mins, km_iter,
            arg_mins, km_pc>>
clVars == <<sortd, cluster_centers_old, points_list, cl_pc>>
dmVars == <<dm_t1, dm_t2, dm_phi1, dm_phi2, dm_dist, dm_pc>>
vtVars == <<vt_centers, vt_data, vt_r, fraction_th, iter_th, filtered_data,
            iter_finished, winning_centers, rect_fraction, vt_pc>>
lmVars == <<lm_ts, lm_phis, lm_lambdas, lm_psis, l_maps, asserts, lm_s, lm_out,
            lm_pc>>
rrVars == <<rr_normals, rr_R, rr_pc, rr_failed>>
dhVars == <<Hs, pure_homographies, affines, dh_pc>>
plVars == <<pl_mode, pl_items, matching_limit, pl_idx, processed_pairs,
            pl_entered, pl_completed, stats_saved, pl_pc>>
piVars == <<normals_clusters_repr, plane_threshold_degrees, valid_normal_indices,
            pi_i, pi_pc>>
mpVars == <<scene_length, matching_difficulties, matching_pairs, already_processed,
            mp_d, mp_idx, mp_lens, mp_taken, mp_skipped, mp_failed, mp_completed,
            mp_pc>>
kpVars == <<components_indices, valid_components_dict, laffs_no_scale, kp_read,
            normals_indices, kp_pc>>
extVars == <<piVars, mpVars, kpVars>>
restVars == <<vtVars, lmVars, rrVars, dhVars, plVars, extVars>>
vars == <<ccVars, kmVars, clVars, dmVars, restVars>>

\* ------------------------------------------------------------------------
\* Generic helpers
\* ------------------------------------------------------------------------
Min(S) == CHOOSE x \in S : \A y \in S : x <= y
Max(S) == CHOOSE x \in S : \A y \in S : x >= y
Abs(x) == IF x < 0 THEN -x ELSE x

RECURSIVE Gcd(_, _)
Gcd(a, b) == IF b = 0 THEN a ELSE Gcd(b, a % b)

\* ------------------------------------------------------------------------
\* Idle values of the components a specification does not run
\* ------------------------------------------------------------------------
IdleCC ==
    /\ normal_indices = <<>> /\ valid_indices = <<>>
    /\ fraction_threshold = <<0, 1>> /\ closing_size = 0
    /\ flood_filling = FALSE /\ connectivity = 4
    /\ out = <<>> /\ out_valid_indices_dict = <<>>
    /\ out_valid_indices_counter = 0 /\ cc_i = 0 /\ cc_pc = "idle"
    /\ cc_input = <<>>

IdleKM ==
    /\ normals = <<>> /\ max_iter = 0 /\ cluster_centers = <<>>
    /\ old_arg_mins = <<>> /\ km_iter = 0 /\ arg_mins = <<>>
    /\ km_pc = "idle"

IdleCL ==
    /\ sortd = <<>> /\ cluster_centers_old = <<>> /\ points_list = <<>>
    /\ cl_pc = "idle"

IdleDM ==
    /\ dm_t1 = <<>> /\ dm_t2 = <<>> /\ dm_phi1 = <<>> /\ dm_phi2 = <<>>
    /\ dm_dist = <<>> /\ dm_pc = "idle"
IdleVT ==
    /\ vt_centers = <<>> /\ vt_data = <<>> /\ vt_r = <<0, 1>>
    /\ fraction_th = <<0, 1>> /\ iter_th = 0 /\ filtered_data = <<>>
    /\ iter_finished = 0 /\ winning_centers = <<>>
    /\ rect_fraction = <<0, 1>> /\ vt_pc = "idle"
IdleLM ==
    /\ lm_ts = <<>> /\ lm_phis = <<>> /\ lm_lambdas = <<>> /\ lm_psis = <<>>
    /\ l_maps = <<>> /\ asserts = TRUE /\ lm_s = <<>> /\ lm_out = <<>>
    /\ lm_pc = "idle"
IdleRR ==
    /\ rr_normals = <<>> /\ rr_R = <<>> /\ rr_pc = "idle" /\ rr_failed = ""
IdleDH ==
    /\ Hs = <<>> /\ pure_homographies = <<>> /\ affines = <<>> /\ dh_pc = "idle"
IdlePL ==
    /\ pl_mode = "matching" /\ pl_items = <<>> /\ matching_limit = 0
    /\ pl_idx = 0 /\ processed_pairs = 0 /\ pl_entered = {} /\ pl_completed = {}
    /\ stats_saved = FALSE /\ pl_pc = "idle"
IdlePI ==
    /\ normals_clusters_repr = <<>> /\ plane_threshold_degrees = 0
    /\ valid_normal_indices = <<>> /\ pi_i = 0 /\ pi_pc = "idle"
IdleMP ==
    /\ scene_length = 0 /\ matching_difficulties = <<>> /\ matching_pairs = <<>>
    /\ already_processed = {} /\ mp_d = 0 /\ mp_idx = 0 /\ mp_lens = <<>>
    /\ mp_taken = <<>> /\ mp_skipped = {} /\ mp_failed = {} /\ mp_completed = 0
    /\ mp_pc = "idle"
IdleKP ==
    /\ components_indices = <<>> /\ valid_components_dict = <<>>
    /\ laffs_no_scale = <<>> /\ kp_read = <<>> /\ normals_indices = <<>>
    /\ kp_pc = "idle"
IdleRest == IdleVT /\ IdleLM /\ IdleRR /\ IdleDH /\ IdlePL /\ IdlePI /\ IdleMP /\ IdleKP
AllIdle == IdleCC /\ IdleKM /\ IdleCL /\ IdleDM /\ IdleRest

\* ========================================================================
\* connected_components.py
\* ========================================================================
\* The label image is Height x Width; pixel p = row * Width + col.
Height == 5
Width == 5
Pixels == 0 .. (Height * Width - 1)
Row(p) == p \div Width
Col(p) == p % Width
Pix(r, c) == r * Width + c
InImage(r, c) == r \in 0 .. (Height - 1) /\ c \in 0 .. (Width - 1)

\* The images drawn: the pixels of the window (a plus shape around (2, 2) and
\* the cell (1, 1)) take any label, every other pixel carries label 0.
WindowCells == {<<1, 1>>, <<1, 2>>, <<2, 1>>, <<2, 2>>, <<2, 3>>, <<3, 2>>}
Window == {Pix(c[1], c[2]) : c \in WindowCells}
Labels == {0, 1}
Images ==
    {[p \in Pixels |-> IF p \in Window THEN f[p] ELSE 0] : f \in [Window -> Labels]}

\* Lists of valid cluster indices: no index twice, any order.
ValidIndexLists ==
    {<<>>} \cup {<<a>> : a \in Labels}
           \cup {<<a, b>> : <<a, b>> \in {x \in Labels \X Labels : x[1] # x[2]}}

\* fraction_threshold: the default 0.03, and 0.04 and 0.8
FractionThresholds == {<<3, 100>>, <<1, 25>>, <<4, 5>>}
ClosingSizes == {0, 3}

\* circle_like_ones(size): the offsets (relative to the anchor size \div 2) of
\* the kernel's ones. r > r_check is compared after scaling lengths by 10.
circle_like_ones(size) ==
    {<<i - (size \div 2), j - (size \div 2)>> :
        <<i, j>> \in {x \in (0 .. (size - 1)) \X (0 .. (size - 1)) :
            ~ ( (5 * size - (10 * x[1] + 5)) * (5 * size - (10 * x[1] + 5))
              + (5 * size - (10 * x[2] + 5)) * (5 * size - (10 * x[2] + 5))
              > (5 * size - 4) * (5 * size - 4) )}}

\* The pixels a kernel centred on p covers inside the image.
Covered(p, kernel) ==
    {Pix(Row(p) + o[1], Col(p) + o[2]) :
        o \in {k \in kernel : InImage(Row(p) + k[1], Col(p) + k[2])}}
KernelTable ==
    [s \in ClosingSizes \ {0} |-> [p \in Pixels |-> Covered(p, circle_like_ones(s))]]

\* cv.dilate / cv.erode with the default border: pixels outside the image never
\* set a pixel in a dilation and never clear one in an erosion.
Dilate(mask, size) == {p \in Pixels : KernelTable[size][p] \cap mask # {}}
Erode(mask, size) == {p \in Pixels : KernelTable[size][p] \subseteq mask}
\* cv.morphologyEx(input, cv.MORPH_CLOSE, circle_like_ones(size))
MorphClose(mask, size) == Erode(Dilate(mask, size), size)

Offsets4 == {<<-1, 0>>, <<1, 0>>, <<0, -1>>, <<0, 1>>}
Offsets8 == Offsets4 \cup {<<-1, -1>>, <<-1, 1>>, <<1, -1>>, <<1, 1>>}
Nbr4 == [p \in Pixels |-> Covered(p, Offsets4)]
Nbr8 == [p \in Pixels |-> Covered(p, Offsets8)]
Neighbours(p, conn) == IF conn = 8 THEN Nbr8[p] ELSE Nbr4[p]

\* The pixels of `region` connected to `frontier` (already in `seen`).
RECURSIVE Reach(_, _, _, _)
Reach(frontier, seen, region, conn) ==
    LET next == {q \in region :
                    q \notin seen /\ \E p \in frontier : q \in Neighbours(p, conn)}
    IN IF next = {} THEN seen ELSE Reach(next, seen \cup next, region, conn)

BorderPixels ==
    {p \in Pixels : Row(p) = 0 \/ Row(p) = Height - 1 \/ Col(p) = 0 \/ Col(p) = Width - 1}

\* Variant for comparison: the flood also passes between diagonal neighbours
flood_fill_8(input_img) ==
    LET cleared == input_img \ BorderPixels
        flooded == Reach({0}, {0}, Pixels \ cleared, 8)
    IN (Pixels \ flooded) \cup input_img

\* flood_fill(input_img): the border of a copy is cleared, the background is
\* flooded (4-connected) from pixel (0, 0); what the flood did not reach is set,
\* and the result is or-ed with the input.
flood_fill(input_img) ==
    LET cleared == input_img \ BorderPixels
        flooded == Reach({0}, {0}, Pixels \ cleared, 4)
    IN (Pixels \ flooded) \cup input_img

\* cv.connectedComponents(input, connectivity): the components of the mask in
\* raster order of their first pixel; component number k (from 1) is label k,
\* label 0 is the background.
RECURSIVE Components(_, _, _)
Components(remaining, acc, conn) ==
    IF remaining = {} THEN acc
    ELSE LET first == Min(remaining)
             comp == Reach({first}, {first}, remaining, conn)
         IN Components(remaining \ comp, Append(acc, comp), conn)
connectedComponents(input, conn) == Components(input, <<>>, conn)

\* The mask labelled for cluster v_i (lines 120-127).
InputMask(img, v_i, closing, flood) ==
    LET input == {p \in Pixels : img[p] = v_i}
        closed == IF closing # 0
                  THEN MorphClose(input, closing)
                  ELSE input
    IN IF flood THEN flood_fill(closed) ELSE closed

\* counts > component_size_threshold, with
\* component_size_threshold = shape[0] * shape[1] * fraction_threshold
AboveThreshold(count, fraction) ==
    count * fraction[2] > Height * Width * fraction[1]

\* np.unique(labels, return_counts=True): the sorted labels that occur, as the
\* sequence of <<label, count>>. Label 0 occurs only if there is background.
UniqueCounts(input, comps) ==
    LET background == Cardinality(Pixels) - Cardinality(input)
        fg == [k \in 1 .. Len(comps) |-> <<k, Cardinality(comps[k])>>]
    IN IF background > 0 THEN <<<<0, background>>>> \o fg ELSE fg

\* np.where(counts > component_size_threshold)[0]: positions (from 0) in the
\* unique array, not label values.
ValidPositions(unique, fraction) ==
    {i - 1 : i \in {j \in 1 .. Len(unique) : AboveThreshold(unique[j][2], fraction)}}

\* Variant for comparison: the counter grows by the number of surviving labels
NextCounterByCount(counter, valid_labels) == counter + Cardinality(valid_labels)
\* out_valid_indices_counter + max_valid_labels (line 145)
NextCounter(counter, valid_labels) == counter + Max(valid_labels)

\* The entries added to the dict for cluster v_i (line 144).
DictEntries(valid_global, v_i) == [g \in valid_global |-> v_i]

\* labels + out_valid_indices_counter (line 139), as pixel -> value
ShiftedLabels(comps, counter) ==
    [p \in Pixels |->
        IF \E k \in 1 .. Len(comps) : p \in comps[k]
        THEN (CHOOSE k \in 1 .. Len(comps) : p \in comps[k]) + counter
        ELSE counter]

\* Variant for comparison: every labelled pixel is merged, also those of discarded components
MergeUnfiltered(o, labels, valid_global) ==
    [p \in Pixels |-> IF labels[p] > Min({labels[q] : q \in Pixels}) THEN labels[p] ELSE o[p]]
\* out = np.where(labels == v_i_i, labels, out) for every valid label (141-142)
MergeInto(o, labels, valid_global) ==
    [p \in Pixels |-> IF labels[p] \in valid_global THEN labels[p] ELSE o[p]]

InitCC ==
    /\ normal_indices \in Images
    /\ valid_indices \in ValidIndexLists
    /\ fraction_threshold \in FractionThresholds
    /\ closing_size \in ClosingSizes
    /\ flood_filling \in BOOLEAN
    /\ connectivity \in {4, 8}
    /\ out = [p \in Pixels |-> 0]
    /\ out_valid_indices_dict = <<>>
    /\ out_valid_indices_counter = 0
    /\ cc_i = 1
    /\ cc_pc = "loop"
    /\ cc_input = <<>>
    /\ IdleKM /\ IdleCL /\ IdleDM /\ IdleRest

ccParams == <<normal_indices, valid_indices, fraction_threshold, closing_size,
              flood_filling, connectivity>>

\* One pass of the loop `for v_i in valid_indices` (lines 119-145).
CCStep ==
    /\ cc_pc = "loop"
    /\ cc_i <= Len(valid_indices)
    /\ LET v_i == valid_indices[cc_i]
           input == InputMask(normal_indices, v_i, closing_size, flood_filling)
           comps == connectedComponents(input, connectivity)
           positions == ValidPositions(UniqueCounts(input, comps), fraction_threshold)
       IN IF positions = {}
          THEN \* valid_labels[0] on an empty array
               /\ cc_pc' = "IndexError"
               /\ UNCHANGED <<out, out_valid_indices_dict,
                              out_valid_indices_counter, cc_i, cc_input>>
          ELSE LET valid_labels == IF Min(positions) = 0
                                   THEN positions \ {0} ELSE positions
                   counter == out_valid_indices_counter
                   valid_global == {l + counter : l \in valid_labels}
               IN /\ cc_input' = (v_i :> input) @@ cc_input
                  /\ cc_i' = cc_i + 1
                  /\ cc_pc' = "loop"
                  /\ IF valid_labels # {}
                     THEN /\ out' = MergeInto(out, ShiftedLabels(comps, counter),
                                              valid_global)
                          /\ out_valid_indices_dict' =
                                 DictEntries(valid_global, v_i) @@ out_valid_indices_dict
                          /\ out_valid_indices_counter' =
                                 NextCounter(counter, valid_labels)
                     ELSE UNCHANGED <<out, out_valid_indices_dict,
                                      out_valid_indices_counter>>
    /\ UNCHANGED <<ccParams, kmVars, clVars, dmVars, restVars>>

\* return out, out_valid_indices_dict (line 152)
CCReturn ==
    /\ cc_pc = "loop"
    /\ cc_i > Len(valid_indices)
    /\ cc_pc' = "done"
    /\ UNCHANGED <<ccParams, out, out_valid_indices_dict,
                   out_valid_indices_counter, cc_i, cc_input,
                   kmVars, clVars, dmVars, restVars>>

NextCC == CCStep \/ CCReturn
SpecCC == InitCC /\ [][NextCC]_vars

\* ------------------------------------------------------------------------
\* Claims about get_connected_components
\* ------------------------------------------------------------------------
\* position of cluster index v in valid_indices
PositionOf(v) == CHOOSE i \in 1 .. Len(valid_indices) : valid_indices[i] = v
RegionOf(g) == {p \in Pixels : out[p] = g}

\* C1: once a pixel of the output image has a global region ID, processing a
\* later cluster leaves that ID unchanged: a cluster only writes pixels that
\* are still 0 (for every option setting).
C1_LaterClustersNeverOverwrite ==
    [][\A p \in Pixels : out[p] # 0 => out'[p] = out[p]]_vars

\* C2: global region IDs never collide: every key is >= 1 and at most the
\* running counter, the IDs of a later-processed cluster are greater than those
\* of every earlier one, and a pass of the loop only adds keys above the
\* counter it started with and leaves the entries already there alone.
C2_Ordered ==
    \A g \in DOMAIN out_valid_indices_dict :
        /\ g >= 1
        /\ g <= out_valid_indices_counter
        /\ \A h \in DOMAIN out_valid_indices_dict :
              PositionOf(out_valid_indices_dict[g]) < PositionOf(out_valid_indices_dict[h])
                  => g < h
C2_FreshKeys ==
    \A g \in DOMAIN out_valid_indices_dict' :
        \/ /\ g \in DOMAIN out_valid_indices_dict
           /\ out_valid_indices_dict'[g] = out_valid_indices_dict[g]
        \/ g > out_valid_indices_counter
C2_IdsNeverCollide == [](C2_Ordered) /\ [][C2_FreshKeys]_vars
\* Two clusters hold regions and a local label was skipped as too small.
C2_Witness ==
    /\ cc_pc = "done"
    /\ \E g, h \in DOMAIN out_valid_indices_dict :
          out_valid_indices_dict[g] # out_valid_indices_dict[h]
    /\ Cardinality(DOMAIN out_valid_indices_dict) < out_valid_indices_counter

\* The connected components of the valid clusters' pixel sets that are larger
\* than fraction_threshold * height * width.
LargeComponents ==
    UNION {{c \in {comps[k] : k \in 1 .. Len(comps)} :
               AboveThreshold(Cardinality(c), fraction_threshold)} :
           comps \in {connectedComponents({p \in Pixels : normal_indices[p] = valid_indices[i]},
                                          connectivity) :
                      i \in 1 .. Len(valid_indices)}}

\* C3: without closing and flood fill the returned map has exactly one entry
\* per connected component of a valid cluster that is larger than the
\* threshold, and none for a smaller one, also when a cluster covers the
\* whole image.
C3_OneEntryPerLargeComponent ==
    (cc_pc = "done" /\ closing_size = 0 /\ ~flood_filling) =>
        /\ Cardinality(DOMAIN out_valid_indices_dict) = Cardinality(LargeComponents)
        /\ {RegionOf(g) : g \in DOMAIN out_valid_indices_dict} = LargeComponents

\* C4: on return every nonzero ID of the output image is a key of the map, and
\* the map gives the cluster whose mask the pixel was taken from; without
\* closing and flood fill that is the pixel's own cluster index.
C4_IdsMapToSourceCluster ==
    cc_pc = "done" =>
        \A p \in Pixels : out[p] # 0 =>
            /\ out[p] \in DOMAIN out_valid_indices_dict
            /\ p \in cc_input[out_valid_indices_dict[out[p]]]
            /\ (closing_size = 0 /\ ~flood_filling)
                   => normal_indices[p] = out_valid_indices_dict[out[p]]
\* Regions of two different clusters are in the returned image.
C4_Witness ==
    /\ cc_pc = "done"
    /\ \E p, q \in Pixels :
          /\ out[p] # 0 /\ out[q] # 0
          /\ out_valid_indices_dict[out[p]] # out_valid_indices_dict[out[q]]

\* The pixels a 4-connected path of background pixels joins to the image
\* border, every border pixel counting as background.
BorderReachable(mask) ==
    Reach(BorderPixels, BorderPixels, (Pixels \ mask) \cup BorderPixels, 4)
\* The mask of cluster v before flood_fill is applied (lines 120-124).
PreFloodMask(v) == InputMask(normal_indices, v, closing_size, FALSE)

\* C21: flood_fill(mask) sets a pixel iff it is set in the input or it cannot
\* be reached from the image border by a 4-connected path of background
\* pixels, every border pixel counting as background; in particular every
\* pixel set in the input is still set in the output.
C21_FloodFillFillsHoles ==
    flood_filling =>
        \A v \in DOMAIN cc_input :
            /\ cc_input[v] = PreFloodMask(v) \cup (Pixels \ BorderReachable(PreFloodMask(v)))
            /\ PreFloodMask(v) \subseteq cc_input[v]
\* flood_fill filled a hole of a mask that has pixels on the border and left
\* a background pixel next to the border unset.
C21_Witness ==
    /\ flood_filling
    /\ cc_pc = "done"
    /\ \E v \in DOMAIN cc_input :
          /\ PreFloodMask(v) \cap BorderPixels # {}
          /\ cc_input[v] # PreFloodMask(v)
          /\ cc_input[v] # Pixels

\* The connected components of the pixel set of cluster v.
ClusterComponents(v) ==
    LET comps == connectedComponents({p \in Pixels : normal_indices[p] = v}, connectivity)
    IN {comps[k] : k \in 1 .. Len(comps)}
\* count = fraction_threshold * height * width
AtThreshold(count, fraction) ==
    count * fraction[2] = Height * Width * fraction[1]

\* C22: only the components whose pixel count is below fraction_threshold *
\* height * width are discarded: a component of a valid cluster whose pixel
\* count is equal to that product survives as a region of the output.
C22_EqualSizeSurvives ==
    (cc_pc = "done" /\ closing_size = 0 /\ ~flood_filling) =>
        \A i \in 1 .. Len(valid_indices) :
            \A c \in ClusterComponents(valid_indices[i]) :
                AtThreshold(Cardinality(c), fraction_threshold) =>
                    \E g \in DOMAIN out_valid_indices_dict :
                        /\ RegionOf(g) = c
                        /\ out_valid_indices_dict[g] = valid_indices[i]

\* C23: on return, for every option setting, every region ID recorded in the
\* returned map labels at least one pixel of the output image, and the number
\* of pixels carrying it exceeds fraction_threshold * height * width.
C23_RecordedIdsAreLargeRegions ==
    cc_pc = "done" =>
        \A g \in DOMAIN out_valid_indices_dict :
            /\ RegionOf(g) # {}
            /\ AboveThreshold(Cardinality(RegionOf(g)), fraction_threshold)

\* No connected component of the mask labelled for cluster v is above the
\* size threshold.
NoLargeComponent(v) ==
    LET comps == connectedComponents(
                     InputMask(normal_indices, v, closing_size, flood_filling),
                     connectivity)
    IN \A k \in 1 .. Len(comps) :
           ~AboveThreshold(Cardinality(comps[k]), fraction_threshold)

\* C27: a valid cluster without a connected component above the size
\* threshold contributes nothing, also when it labels no pixel at all and
\* also when the background's pixel count is not above the threshold either:
\* its pass of the loop ends normally and leaves the output image, the map
\* and the counter as they were.
C27_SmallClusterContributesNothing ==
    [][(cc_pc = "loop" /\ cc_i <= Len(valid_indices)
            /\ NoLargeComponent(valid_indices[cc_i]))
        => /\ cc_pc' = "loop"
           /\ out' = out
           /\ out_valid_indices_dict' = out_valid_indices_dict
           /\ out_valid_indices_counter' = out_valid_indices_counter]_vars

\* ========================================================================
\* spherical_kmeans.py
\* ========================================================================
\* A unit vector is held as an integer direction v and stands for v / |v|, so
\* that distances between unit vectors are compared exactly:
\*   |a/|a| - b/|b||^2 = 2 - 2 cos(a, b).
Dot(a, b) == a[1] * b[1] + a[2] * b[2] + a[3] * b[3]
Zero3 == <<0, 0, 0>>
\* sign(x) * x^2, which orders like x
SignedSquare(x) == IF x < 0 THEN -(x * x) ELSE x * x
\* cos(a, n) > cos(b, n): the unit vector of a is strictly nearer to n than b's
Nearer(a, b, n) ==
    SignedSquare(Dot(a, n)) * Dot(b, b) > SignedSquare(Dot(b, n)) * Dot(a, a)
\* v scaled to the shortest integer vector of its direction
Direction(v) ==
    LET g == Gcd(Gcd(Abs(v[1]), Abs(v[2])), Abs(v[3]))
    IN <<v[1] \div g, v[2] \div g, v[3] \div g>>

\* distance_threshold = 0.6 = DistanceThresholdNum / DistanceThresholdDen
DistanceThresholdNum == 3
DistanceThresholdDen == 5
\* |a - b| < distance_threshold for unit vectors: cos(a, b) > 1 - d^2 / 2
CosNearNum == 2 * DistanceThresholdDen * DistanceThresholdDen
              - DistanceThresholdNum * DistanceThresholdNum
CosNearDen == 2 * DistanceThresholdDen * DistanceThresholdDen
WithinDistanceThreshold(a, b) ==
    /\ Dot(a, b) > 0
    /\ CosNearDen * CosNearDen * Dot(a, b) * Dot(a, b)
           > CosNearNum * CosNearNum * Dot(a, a) * Dot(b, b)
\* distance_threshold_angle_times_two = 2 sin(2 asin(d / 2)): the chord of twice
\* the angle; |a - b| below it: cos(a, b) > 1 - 2 d^2 + d^4 / 2
CosSeparationNum ==
    2 * DistanceThresholdDen * DistanceThresholdDen * DistanceThresholdDen * DistanceThresholdDen
    - 4 * DistanceThresholdNum * DistanceThresholdNum * DistanceThresholdDen * DistanceThresholdDen
    + DistanceThresholdNum * DistanceThresholdNum * DistanceThresholdNum * DistanceThresholdNum
CosSeparationDen ==
    2 * DistanceThresholdDen * DistanceThresholdDen * DistanceThresholdDen * DistanceThresholdDen
BelowSeparation(a, b) ==
    /\ Dot(a, b) > 0
    /\ CosSeparationDen * CosSeparationDen * Dot(a, b) * Dot(a, b)
           > CosSeparationNum * CosSeparationNum * Dot(a, a) * Dot(b, b)

\* The sentinel label of an unassigned pixel (the literal 3 of lines 148-175).
Sentinel == 3
max_clusters == 3

\* The normal field. All pixels with the same normal and the same mask bit
\* behave alike, so the field is held as pixel classes: `normals` maps the
\* classes that occur to their pixel count. All normals have the same length.
ClassTable ==
    << [n |-> <<1, 2, 3>>,    mask |-> TRUE],
       [n |-> <<2, 1, 3>>,    mask |-> TRUE],
       [n |-> <<3, 1, 2>>,    mask |-> TRUE],
       [n |-> <<1, 2, -3>>,   mask |-> TRUE],
       [n |-> <<-3, -2, 1>>,  mask |-> TRUE],
       [n |-> <<3, -2, -1>>,  mask |-> TRUE],
       [n |-> <<1, 2, 3>>,    mask |-> FALSE] >>
Normal(c) == ClassTable[c].n
filter_mask(c) == ClassTable[c].mask
\* Pixels come in units of SupportUnit, at most MaxUnits units per class.
\* The minimum support of a seed (cluster, line 56).
MinSupport == 20000
SupportUnit == MinSupport \div 2
MaxUnits == 2
MaxIter == 3
NormalFields(classes) ==
    {[c \in {d \in classes : w[d] > 0} |-> w[c] * SupportUnit] :
        w \in {x \in [classes -> 0 .. MaxUnits] : \E d \in classes : x[d] > 0}}

NaN == [nan |-> TRUE, v |-> Zero3]
Center(v) == [nan |-> FALSE, v |-> Direction(v)]

\* torch.min over the centers of diff_norm: NaN if a center is NaN (torch.min
\* propagates NaN); otherwise the first center of minimal distance.
AnyNaN(centers) == \E k \in 1 .. Len(centers) : centers[k].nan
ArgMin(centers, n) ==
    CHOOSE k \in 1 .. Len(centers) :
        /\ \A j \in 1 .. Len(centers) : ~Nearer(centers[j].v, centers[k].v, n)
        /\ \A j \in 1 .. (k - 1) : Nearer(centers[k].v, centers[j].v, n)

\* filtered_arg_mins of one pixel (lines 143-149 and 168-175): labels count
\* from 0.
FilteredLabel(centers, c) ==
    IF AnyNaN(centers) THEN Sentinel
    ELSE LET k == ArgMin(centers, Normal(c))
             filtered == IF filter_mask(c) THEN k - 1 ELSE Sentinel
         IN IF WithinDistanceThreshold(centers[k].v, Normal(c))
            THEN filtered ELSE Sentinel
FilteredArgMins(centers, field) ==
    [c \in DOMAIN field |-> FilteredLabel(centers, c)]

\* Variant for comparison: only switches between two clusters count as changes
ChangesIgnoringSentinel(old, new) ==
    Cardinality({c \in DOMAIN new :
                    old[c] # new[c] /\ old[c] # Sentinel /\ new[c] # Sentinel})
\* changes = old_arg_mins[old_arg_mins != filtered_arg_mins].shape[0] (line 152),
\* in pixel classes
Changes(old, new) == Cardinality({c \in DOMAIN new : old[c] # new[c]})

RECURSIVE SumOver(_, _, _)
SumOver(S, field, acc) ==
    IF S = {} THEN acc
    ELSE LET c == CHOOSE x \in S : TRUE
             n == Normal(c)
         IN SumOver(S \ {c}, field,
                    <<acc[1] + field[c] * n[1], acc[2] + field[c] * n[2],
                      acc[3] + field[c] * n[3]>>)

\* Lines 160-164: the normalised mean of the points of cluster i; 0 / 0 = NaN
\* when the cluster has no point (or the points sum to zero).
NewCenter(i, assignment, field, old) ==
    LET sum == SumOver({c \in DOMAIN field : assignment[c] = i}, field, Zero3)
    IN IF sum = Zero3 THEN NaN ELSE Center(sum)
UpdatedCenters(centers, assignment, field) ==
    [i \in 1 .. Len(centers) |-> NewCenter(i - 1, assignment, field, centers[i])]

\* kmeans is entered with cluster_centers given (clusters = shape[0]).
KMClasses == {1, 2, 3, 4, 7}
CenterDirections == {<<1, 2, 3>>, <<3, 1, 2>>, <<1, 2, -3>>}
InitialCenters ==
    {s \in UNION {[1 .. k -> CenterDirections] : k \in 1 .. max_clusters} :
        \A i, j \in 1 .. Len(s) : i # j => s[i] # s[j]}

InitKM ==
    /\ normals \in NormalFields(KMClasses)
    /\ max_iter \in 0 .. MaxIter
    /\ \E s \in InitialCenters :
          cluster_centers = [i \in 1 .. Len(s) |-> Center(s[i])]
    /\ old_arg_mins = <<>>
    /\ km_iter = 0
    /\ arg_mins = <<>>
    /\ km_pc = "loop"
    /\ IdleCC /\ IdleCL /\ IdleDM /\ IdleRest

\* One pass of `for iter in range(max_iter)` (lines 141-164). old_arg_mins is
\* <<>> for None and <<assignment>> otherwise.
KmIter ==
    /\ km_pc = "loop"
    /\ km_iter < max_iter
    /\ LET filtered_arg_mins == FilteredArgMins(cluster_centers, normals)
       IN IF old_arg_mins # <<>> /\ Changes(old_arg_mins[1], filtered_arg_mins) = 0
          THEN \* break
               /\ km_pc' = "after"
               /\ UNCHANGED <<old_arg_mins, cluster_centers>>
          ELSE /\ old_arg_mins' = <<filtered_arg_mins>>
               /\ cluster_centers' =
                      UpdatedCenters(cluster_centers, filtered_arg_mins, normals)
               /\ km_pc' = "loop"
    /\ km_iter' = km_iter + 1
    /\ UNCHANGED <<normals, max_iter, arg_mins, ccVars, clVars, dmVars, restVars>>

\* Variant for comparison: the labels of the last pass of the loop are
\* returned, all unassigned when no pass was made
LabelsOfLastPass(centers, field, old) ==
    IF old = <<>> THEN [c \in DOMAIN field |-> Sentinel] ELSE old[1]
\* Lines 168-175: the labels are computed again from the final centers.
ReturnedLabels(centers, field, old) == FilteredArgMins(centers, field)

\* After the loop (lines 166-179): the final assignment and the return.
KmFinish ==
    /\ \/ km_pc = "after"
       \/ km_pc = "loop" /\ km_iter >= max_iter
    /\ arg_mins' = ReturnedLabels(cluster_centers, normals, old_arg_mins)
    /\ km_pc' = "done"
    /\ UNCHANGED <<normals, max_iter, cluster_centers, old_arg_mins, km_iter,
                   ccVars, clVars, dmVars, restVars>>

NextKM == KmIter \/ KmFinish
SpecKM == InitKM /\ [][NextKM]_vars

\* ------------------------------------------------------------------------
\* Claims about kmeans
\* ------------------------------------------------------------------------
RealCenters == {k \in 1 .. Len(cluster_centers) : ~cluster_centers[k].nan}

\* C5: a cluster without points is guarded: no returned center is NaN, and a
\* masked pixel within the distance threshold of a returned center is not
\* turned into the unassigned sentinel.
C5_EmptyClusterGuarded ==
    km_pc = "done" =>
        /\ \A k \in 1 .. Len(cluster_centers) : ~cluster_centers[k].nan
        /\ \A c \in DOMAIN normals :
              (filter_mask(c) /\ \E k \in RealCenters :
                   WithinDistanceThreshold(cluster_centers[k].v, Normal(c)))
                  => arg_mins[c] # Sentinel

\* The index (from 0) of the returned center nearest to the normal of class c:
\* the first of the centers no other center is nearer than.
NearestReturnedCenter(c) ==
    (CHOOSE k \in RealCenters :
        /\ \A j \in RealCenters :
              ~Nearer(cluster_centers[j].v, cluster_centers[k].v, Normal(c))
        /\ \A j \in RealCenters :
              j < k => Nearer(cluster_centers[k].v, cluster_centers[j].v, Normal(c)))
    - 1

\* C6: on return every pixel's label is consistent with the returned centers:
\* the sentinel if the pixel is outside filter_mask or not within the distance
\* threshold of its nearest returned center, else that center's index.
C6_LabelsConsistentWithCenters ==
    km_pc = "done" =>
        \A c \in DOMAIN normals :
            arg_mins[c] =
                IF \/ ~filter_mask(c)
                   \/ RealCenters = {}
                   \/ ~WithinDistanceThreshold(
                          cluster_centers[NearestReturnedCenter(c) + 1].v, Normal(c))
                THEN Sentinel
                ELSE NearestReturnedCenter(c)

\* C7: the loop makes at most max_iter passes; a pass whose filtered assignment
\* equals the previous pass's for every pixel ends the loop without a center
\* update, and every other pass updates the centers and stays in the loop (a
\* switch between a cluster and the sentinel is a change).
C7_PassStep ==
    (km_pc = "loop" /\ km_iter' = km_iter + 1) =>
        LET new == FilteredArgMins(cluster_centers, normals)
            same == /\ old_arg_mins # <<>>
                    /\ \A c \in DOMAIN normals : old_arg_mins[1][c] = new[c]
        IN IF same
           THEN km_pc' = "after" /\ cluster_centers' = cluster_centers
           ELSE /\ km_pc' = "loop"
                /\ old_arg_mins' = <<new>>
                /\ cluster_centers' = UpdatedCenters(cluster_centers, new, normals)
C7_LoopBoundedAndStopsEarly ==
    [](km_iter <= max_iter) /\ [][C7_PassStep]_vars
\* The loop was left by the break before max_iter passes were made, with a
\* pixel that is unassigned.
C7_Witness ==
    /\ km_pc = "after"
    /\ km_iter < max_iter
    /\ \E c \in DOMAIN normals : filter_mask(c) /\ old_arg_mins[1][c] = Sentinel
    /\ \E c \in DOMAIN normals : old_arg_mins[1][c] # Sentinel

\* C25: kmeans called with max_iter = 0 works and updates no center: it
\* returns the initial centers unchanged, and the labels are those of
\* assigning every pixel to the nearest of these centers under the mask and
\* the distance threshold (the sentinel otherwise).
C25_InitialAssignment ==
    (max_iter = 0 /\ km_pc = "done") =>
        /\ km_iter = 0
        /\ \A c \in DOMAIN normals :
              arg_mins[c] =
                  IF /\ filter_mask(c)
                     /\ WithinDistanceThreshold(
                            cluster_centers[NearestReturnedCenter(c) + 1].v, Normal(c))
                  THEN NearestReturnedCenter(c)
                  ELSE Sentinel
C25_CentersKept ==
    (km_pc # "idle" /\ max_iter = 0) =>
        /\ cluster_centers' = cluster_centers
        /\ km_pc' \in {"loop", "done"}
C25_MaxIterZeroWorks == [](C25_InitialAssignment) /\ [][C25_CentersKept]_vars
\* kmeans returned with max_iter = 0: of several centers the second one got a
\* pixel, and a pixel inside the mask is too far from every center.
C25_Witness ==
    /\ max_iter = 0
    /\ km_pc = "done"
    /\ Len(cluster_centers) > 1
    /\ \E c \in DOMAIN normals : arg_mins[c] = 1
    /\ \E c \in DOMAIN normals : filter_mask(c) /\ arg_mins[c] = Sentinel

\* ------------------------------------------------------------------------
\* cluster(): phase 1 (seeding), then kmeans
\* ------------------------------------------------------------------------
\* n_centers: the candidate seeds. The code spreads 300 points over the sphere;
\* the model scans these directions.
n_centers ==
    << <<1, 2, 3>>, <<2, 1, 3>>, <<1, 2, -3>>, <<-3, -2, 1>>, <<3, -2, -1>> >>
Candidates == 1 .. Len(n_centers)

RECURSIVE SumCounts(_, _)
SumCounts(S, field) ==
    IF S = {} THEN 0
    ELSE LET c == CHOOSE x \in S : TRUE
         IN field[c] + SumCounts(S \ {c}, field)
\* expand_centers_get_sums (lines 31-43): per candidate, the number of masked
\* normals within distance_threshold.
NearCandidate ==
    [k \in Candidates |->
        {c \in DOMAIN ClassTable :
            filter_mask(c) /\ WithinDistanceThreshold(n_centers[k], Normal(c))}]
Sums(field) ==
    [k \in Candidates |-> SumCounts(NearCandidate[k] \cap DOMAIN field, field)]

\* torch.sort(sums, descending=True): the orders of the candidates by
\* decreasing count; the order of equal counts is not fixed.
RECURSIVE SortedOrders(_, _)
SortedOrders(S, sums) ==
    IF S = {} THEN {<<>>}
    ELSE UNION {{<<k>> \o rest : rest \in SortedOrders(S \ {k}, sums)} :
                   k \in {x \in S : \A y \in S : sums[x] >= sums[y]}}
SortedDescending(order, sums) ==
    \A i, j \in 1 .. Len(order) : i < j => sums[order[i]] >= sums[order[j]]

\* Variant for comparison: only the seed chosen last is compared
DistanceOkLastOnly(index, chosen) ==
    chosen = <<>> \/ ~BelowSeparation(n_centers[index], n_centers[chosen[Len(chosen)]])
\* Lines 59-65: no chosen seed is below the minimum separation.
DistanceOk(index, chosen) ==
    \A i \in 1 .. Len(chosen) : ~BelowSeparation(n_centers[index], n_centers[chosen[i]])

\* Line 56 breaks when points < 20000.
HasSupport(points) == ~(points < MinSupport)

\* The loop of lines 53-69 from position pos of the scan order.
RECURSIVE SeedLoop(_, _, _, _)
SeedLoop(order, sums, pos, chosen) ==
    IF pos > Len(order) THEN chosen
    ELSE IF Len(chosen) >= max_clusters THEN chosen
    ELSE IF ~HasSupport(sums[order[pos]]) THEN chosen
    ELSE IF DistanceOk(order[pos], chosen)
         THEN SeedLoop(order, sums, pos + 1, Append(chosen, order[pos]))
         ELSE SeedLoop(order, sums, pos + 1, chosen)

ClusterClasses == {1, 2, 4, 5, 6, 7}

InitCluster ==
    /\ normals \in NormalFields(ClusterClasses)
    /\ max_iter \in {0, 1}
    /\ cluster_centers = <<>>
    /\ old_arg_mins = <<>>
    /\ km_iter = 0
    /\ arg_mins = <<>>
    /\ km_pc = "idle"
    /\ sortd = <<>>
    /\ cluster_centers_old = <<>>
    /\ points_list = <<>>
    /\ cl_pc = "phase1"
    /\ IdleCC /\ IdleDM /\ IdleRest

\* Phase 1 (lines 26-76) up to the call of kmeans. With no seed chosen,
\* torch.cat of the empty list raises a RuntimeError.
ClPhase1 ==
    /\ cl_pc = "phase1"
    /\ LET sums == Sums(normals)
       IN \E order \in SortedOrders(Candidates, sums) :
             LET chosen == SeedLoop(order, sums, 1, <<>>)
             IN /\ sortd' = order
                /\ IF chosen = <<>>
                   THEN /\ cl_pc' = "RuntimeError"
                        /\ UNCHANGED <<cluster_centers_old, points_list,
                                       cluster_centers, km_pc>>
                   ELSE /\ cl_pc' = "kmeans"
                        /\ cluster_centers_old' = chosen
                        /\ points_list' = [i \in 1 .. Len(chosen) |-> sums[chosen[i]]]
                        /\ cluster_centers' =
                               [i \in 1 .. Len(chosen) |-> Center(n_centers[chosen[i]])]
                        /\ km_pc' = "loop"
    /\ UNCHANGED <<normals, max_iter, old_arg_mins, km_iter, arg_mins,
                   ccVars, dmVars, restVars>>

\* Lines 90-101: kmeans has returned; cluster returns its result.
ClReturn ==
    /\ cl_pc = "kmeans"
    /\ km_pc = "done"
    /\ cl_pc' = "done"
    /\ UNCHANGED <<sortd, cluster_centers_old, points_list, kmVars, ccVars,
                   dmVars, restVars>>

NextCluster == ClPhase1 \/ KmIter \/ KmFinish \/ ClReturn
SpecCluster == InitCluster /\ [][NextCluster]_vars

\* ------------------------------------------------------------------------
\* Claims about cluster()
\* ------------------------------------------------------------------------
\* The greedy reference: scan in the given order; accept a candidate iff fewer
\* than 3 are accepted, its count is at least 20000 and it is not below the
\* minimum separation from any accepted seed.
RECURSIVE GreedyReference(_, _, _, _)
GreedyReference(order, sums, pos, accepted) ==
    IF pos > Len(order) THEN accepted
    ELSE LET cand == order[pos]
             accept ==
                 /\ Len(accepted) < 3
                 /\ sums[cand] >= 20000
                 /\ \A i \in 1 .. Len(accepted) :
                       ~BelowSeparation(n_centers[cand], n_centers[accepted[i]])
         IN GreedyReference(order, sums, pos + 1,
                            IF accept THEN Append(accepted, cand) ELSE accepted)

\* C8: the seeds of phase 1 are those of the greedy reference over the
\* candidates in decreasing order of their count; so there are at most 3, each
\* with support >= 20000, any two not below the minimum separation.
C8_SeedsAreGreedy ==
    cl_pc \in {"kmeans", "done", "RuntimeError"} =>
      LET sums == Sums(normals)
      IN
        /\ Len(sortd) = Len(n_centers)
        /\ {sortd[i] : i \in 1 .. Len(sortd)} = Candidates
        /\ SortedDescending(sortd, sums)
        /\ cluster_centers_old = GreedyReference(sortd, sums, 1, <<>>)
        /\ Len(cluster_centers_old) <= 3
        /\ \A i \in 1 .. Len(cluster_centers_old) :
              sums[cluster_centers_old[i]] >= 20000
        /\ \A i, j \in 1 .. Len(cluster_centers_old) :
              i # j => ~BelowSeparation(n_centers[cluster_centers_old[i]],
                                        n_centers[cluster_centers_old[j]])
\* Three seeds were chosen, a supported candidate was rejected as too close and
\* a fourth separated candidate had support too.
C8_Witness ==
    /\ cl_pc = "kmeans"
    /\ Len(cluster_centers_old) = 3
    /\ \A k \in Candidates : Sums(normals)[k] >= 20000

\* C9: with no candidate of support >= 20000 cluster() ends with the dedicated
\* insufficient-support error, before any k-means refinement.
C9_InsufficientSupportError ==
    (cl_pc # "phase1" /\ \A k \in Candidates : Sums(normals)[k] < 20000) =>
        /\ cl_pc = "InsufficientSupportError"
        /\ km_pc = "idle" /\ km_iter = 0

\* ------------------------------------------------------------------------
\* distance_matrix (opt_covering.py)
\* ------------------------------------------------------------------------
\* Exact rationals <<numerator, denominator>> in lowest terms, denominator > 0.
RNorm(n, d) ==
    LET g == Gcd(Abs(n), Abs(d))
        s == IF d < 0 THEN -1 ELSE 1
    IN <<(s * n) \div g, (s * d) \div g>>
RAdd(a, b) == RNorm(a[1] * b[2] + b[1] * a[2], a[2] * b[2])
RMul(a, b) == RNorm(a[1] * b[1], a[2] * b[2])
RDiv(a, b) == RNorm(a[1] * b[2], a[2] * b[1])
RInt(n) == <<n, 1>>

\* Angles are multiples of pi/4; cos^2 and sin^2 of k * pi/4.
CosSquared(k) == IF k % 2 # 0 THEN <<1, 2>> ELSE IF k % 4 = 0 THEN <<1, 1>> ELSE <<0, 1>>
SinSquared(k) == IF k % 2 # 0 THEN <<1, 2>> ELSE IF k % 4 = 0 THEN <<0, 1>> ELSE <<1, 1>>

MaxLen == 2
Tilts == {1, 2}
Phis == {0, 1, 2}
TiltVectors == UNION {[1 .. n -> Tilts] : n \in 1 .. MaxLen}
PhiVectors(n) == [1 .. n -> Phis]

\* Lines 68-69 for one pair: 1.0 / t2 * t1 is (1.0 / t2) * t1.
DistanceEntry(t1, t2, phi1, phi2) ==
    RDiv(RAdd(RMul(RAdd(RDiv(RInt(t1), RInt(t2)), RDiv(RInt(t2), RInt(t1))),
                   CosSquared(phi1 - phi2)),
              RMul(RAdd(RMul(RInt(t1), RInt(t2)),
                        RMul(RDiv(RInt(1), RInt(t2)), RInt(t1))),
                   SinSquared(phi1 - phi2))),
         RInt(2))
\* Lines 64-70: t1, phi1 broadcast along the columns, t2, phi2 along the rows.
distance_matrix(t1, t2, phi1, phi2) ==
    [i \in 1 .. Len(t1) |->
        [j \in 1 .. Len(t2) |-> DistanceEntry(t1[i], t2[j], phi1[i], phi2[j])]]

InitDist ==
    /\ dm_t1 \in TiltVectors
    /\ dm_t2 \in TiltVectors
    /\ dm_phi1 \in PhiVectors(Len(dm_t1))
    /\ dm_phi2 \in PhiVectors(Len(dm_t2))
    /\ dm_dist = <<>>
    /\ dm_pc = "call"
    /\ IdleCC /\ IdleKM /\ IdleCL /\ IdleRest

DistanceMatrix ==
    /\ dm_pc = "call"
    /\ dm_dist' = distance_matrix(dm_t1, dm_t2, dm_phi1, dm_phi2)
    /\ dm_pc' = "done"
    /\ UNCHANGED <<dm_t1, dm_t2, dm_phi1, dm_phi2, ccVars, kmVars, clVars,
                   restVars>>

NextDist == DistanceMatrix
SpecDist == InitDist /\ [][NextDist]_vars

\* C10: entry [i][j] of distance_matrix equals
\* 1/2 [(t1/t2 + t2/t1) cos^2(phi1 - phi2) + (t1 t2 + 1/(t1 t2)) sin^2(phi1 - phi2)]
\* with t1 = t1[i], phi1 = phi1[i], t2 = t2[j], phi2 = phi2[j].
C10_DistanceFormula ==
    dm_pc = "done" =>
        /\ Len(dm_dist) = Len(dm_t1)
        /\ \A i \in 1 .. Len(dm_t1) :
              /\ Len(dm_dist[i]) = Len(dm_t2)
              /\ \A j \in 1 .. Len(dm_t2) :
                    LET t1 == RInt(dm_t1[i])
                        t2 == RInt(dm_t2[j])
                        d == dm_phi1[i] - dm_phi2[j]
                    IN dm_dist[i][j] =
                          RMul(<<1, 2>>,
                               RAdd(RMul(RAdd(RDiv(t1, t2), RDiv(t2, t1)), CosSquared(d)),
                                    RMul(RAdd(RMul(t1, t2), RDiv(RInt(1), RMul(t1, t2))),
                                         SinSquared(d))))

\* C11: the distance is symmetric in its two points: the entry computed for
\* (first = a, second = b) equals the entry computed for (first = b,
\* second = a).
C11_DistanceSymmetric ==
    dm_pc = "done" =>
        LET swapped == distance_matrix(dm_t2, dm_t1, dm_phi2, dm_phi1)
        IN \A i \in 1 .. Len(dm_t1) : \A j \in 1 .. Len(dm_t2) :
              dm_dist[i][j] = swapped[j][i]

\* ------------------------------------------------------------------------
\* vote (opt_covering.py)
\* ------------------------------------------------------------------------
RLess(a, b) == a[1] * b[2] < b[1] * a[2]
RSub(a, b) == RNorm(a[1] * b[2] - b[1] * a[2], a[2] * b[2])

\* rhs = (exp(2 log r) + 1) / (2 exp(log r)) (lines 83-84)
Rhs(r) == RDiv(RAdd(RMul(r, r), RInt(1)), RMul(RInt(2), r))

\* Variant for comparison: a point of tilt r is excluded too
AroundIdentityInclusive(p, r) == ~RLess(r, RInt(p[1]))
\* data_around_identity_mask = data[0] < math.exp(r) (line 86)
AroundIdentity(p, r) == RLess(RInt(p[1]), r)
\* filtered_data = data[:, ~data_around_identity_mask] (line 87)
FilterIdentity(data, r) == SelectSeq(data, LAMBDA p : ~AroundIdentity(p, r))

\* rect_fraction = 1 - filtered_data.shape[1] / data.shape[1] (lines 91, 106)
RectFraction(filtered, data) == RSub(RInt(1), RNorm(Len(filtered), Len(data)))

\* One entry of votes = (distances < rhs) (lines 96-97): center c covers
\* point p.
VoteEntry(c, p, r) == RLess(DistanceEntry(c[1], p[1], c[2], p[2]), Rhs(r))
VoteCenters == {<<2, 0>>, <<3, 1>>}
VotePoints == {<<1, 0>>, <<2, 0>>, <<3, 0>>, <<2, 1>>}
Radii == {<<3, 2>>, <<2, 1>>}
\* votes, entry by entry, for the centers, points and radii of the calls.
CoverTable ==
    [r \in Radii |-> [c \in VoteCenters |-> {p \in VotePoints : VoteEntry(c, p, r)}]]
Covers(c, p, r) == p \in CoverTable[r][c]
\* The row of votes of center c: the positions of the remaining points it covers.
Votes(c, filtered, r) == {j \in 1 .. Len(filtered) : Covers(c, filtered[j], r)}
\* votes_count = votes.sum(axis=1) (line 98)
VotesCount(centers, filtered, r) ==
    [i \in 1 .. Len(centers) |-> Cardinality(Votes(centers[i], filtered, r))]

\* Variant for comparison: the first center wins
FirstCenter(counts) == {1}
\* indices[0] of torch.sort(votes_count, descending=True) (line 99): a center
\* of maximal count; which one among equal counts is not fixed.
WinnerIndices(counts) ==
    {i \in DOMAIN counts : \A k \in DOMAIN counts : counts[i] >= counts[k]}

\* filtered_data[:, ~data_in_mask] with data_in_mask = votes[indices[0]]
\* (lines 101-105)
RemoveCovered(filtered, c, r) == SelectSeq(filtered, LAMBDA p : ~Covers(c, p, r))

\* Variant for comparison: one iteration more than the budget
LoopConditionOffByOne(fraction, fth, done, ith) == RLess(fraction, fth) /\ done <= ith
\* while rect_fraction < fraction_th and iter_finished < iter_th (line 93)
LoopCondition(fraction, fth, done, ith) == RLess(fraction, fth) /\ done < ith

MaxPoints == 3
MaxIterTh == 2
FractionThs == {<<1, 2>>, <<1, 1>>}
CenterLists ==
    {<<c>> : c \in VoteCenters} \cup
    ({<<c, d>> : c, d \in VoteCenters} \ {<<c, c>> : c \in VoteCenters})
DataLists == UNION {[1 .. n -> VotePoints] : n \in 1 .. MaxPoints}

InitVote == AllIdle

\* The call and lines 83-92: the points around the identity are filtered out.
VoteCall ==
    /\ vt_pc = "idle"
    /\ vt_centers' \in CenterLists
    /\ vt_data' \in DataLists
    /\ vt_r' \in Radii
    /\ fraction_th' \in FractionThs
    /\ iter_th' \in 0 .. MaxIterTh
    /\ filtered_data' = FilterIdentity(vt_data', vt_r')
    /\ iter_finished' = 0
    /\ winning_centers' = <<>>
    /\ rect_fraction' = RectFraction(FilterIdentity(vt_data', vt_r'), vt_data')
    /\ vt_pc' = "loop"
    /\ UNCHANGED <<ccVars, kmVars, clVars, dmVars, lmVars, rrVars, dhVars, plVars,
                   extVars>>

voteParams == <<vt_centers, vt_data, vt_r, fraction_th, iter_th>>

\* One iteration of the while loop (lines 93-110).
VoteIter ==
    /\ vt_pc = "loop"
    /\ LoopCondition(rect_fraction, fraction_th, iter_finished, iter_th)
    /\ \E w \in WinnerIndices(VotesCount(vt_centers, filtered_data, vt_r)) :
          LET remaining == RemoveCovered(filtered_data, vt_centers[w], vt_r)
          IN /\ filtered_data' = remaining
             /\ rect_fraction' = RectFraction(remaining, vt_data)
             /\ winning_centers' = Append(winning_centers, vt_centers[w])
             /\ iter_finished' = iter_finished + 1
    /\ UNCHANGED <<voteParams, vt_pc, ccVars, kmVars, clVars, dmVars, lmVars,
                   rrVars, dhVars, plVars, extVars>>

\* return torch.tensor(winning_centers) (line 112)
VoteReturn ==
    /\ vt_pc = "loop"
    /\ ~LoopCondition(rect_fraction, fraction_th, iter_finished, iter_th)
    /\ vt_pc' = "done"
    /\ UNCHANGED <<voteParams, filtered_data, iter_finished, winning_centers,
                   rect_fraction, ccVars, kmVars, clVars, dmVars, lmVars, rrVars,
                   dhVars, plVars, extVars>>

NextVote == VoteCall \/ VoteIter \/ VoteReturn
SpecVote == InitVote /\ [][NextVote]_vars
\* The call is not suspended for ever. VoteIterEnabled is ENABLED VoteIter
\* written out (a call has at least one center, so some center wins), and the
\* last conjunct is the weak fairness of VoteIter in terms of it.
VoteIterEnabled ==
    vt_pc = "loop" /\ LoopCondition(rect_fraction, fraction_th, iter_finished, iter_th)
SpecVoteFair ==
    /\ SpecVote
    /\ WF_vars(VoteCall)
    /\ WF_vars(VoteReturn)
    /\ ([]<>(~VoteIterEnabled) \/ []<><<VoteIter>>_vars)

\* ------------------------------------------------------------------------
\* Claims about vote
\* ------------------------------------------------------------------------
\* The points of the call that are not excluded around the identity.
NonExcluded == {j \in 1 .. Len(vt_data) : ~RLess(RInt(vt_data[j][1]), vt_r)}
WithinThreshold(c, p) ==
    RLess(DistanceEntry(c[1], p[1], c[2], p[2]),
          RDiv(RAdd(RMul(vt_r, vt_r), RInt(1)), RMul(RInt(2), vt_r)))
FullCover ==
    /\ fraction_th = <<1, 1>>
    /\ iter_th >= 1
    /\ NonExcluded # {}
    /\ \A j \in NonExcluded :
          \E i \in 1 .. Len(vt_centers) : WithinThreshold(vt_centers[i], vt_data[j])

\* C12: vote() terminates after at most iter_th iterations with at most
\* iter_th winners; with fraction_th = 1, iter_th >= 1, every non-excluded
\* point within the threshold of some center and at least one non-excluded
\* point, the returned list of winners is nonempty.
C12_TerminatesNonempty ==
    /\ [](iter_finished <= iter_th /\ Len(winning_centers) <= iter_th)
    /\ <>(vt_pc = "done")
    /\ []((vt_pc = "done" /\ FullCover) => winning_centers # <<>>)
\* A full cover that took two winners.
C12_Witness ==
    /\ vt_pc = "done"
    /\ FullCover
    /\ Len(winning_centers) = 2
    /\ filtered_data = <<>>

\* The positions of the remaining points center c covers.
CoveredBy(c) == {j \in 1 .. Len(filtered_data) : WithinThreshold(c, filtered_data[j])}
\* The remaining points without those at the positions in S, in order.
RECURSIVE Without(_, _, _)
Without(seq, S, j) ==
    IF j > Len(seq) THEN <<>>
    ELSE (IF j \in S THEN <<>> ELSE <<seq[j]>>) \o Without(seq, S, j + 1)
CoveredFraction(remaining) ==
    <<Len(vt_data) - Len(remaining), Len(vt_data)>>
SameFraction(a, b) == a[1] * b[2] = b[1] * a[2]

C13_Step ==
    vt_pc = "loop" =>
        /\ (vt_pc' = "loop" /\ iter_finished' # iter_finished) =>
              /\ RLess(rect_fraction, fraction_th) /\ iter_finished < iter_th
              /\ iter_finished' = iter_finished + 1
              /\ \E i \in 1 .. Len(vt_centers) :
                    /\ winning_centers' = Append(winning_centers, vt_centers[i])
                    /\ \A k \in 1 .. Len(vt_centers) :
                          Cardinality(CoveredBy(vt_centers[i]))
                              >= Cardinality(CoveredBy(vt_centers[k]))
                    /\ filtered_data' = Without(filtered_data, CoveredBy(vt_centers[i]), 1)
              /\ SameFraction(rect_fraction', CoveredFraction(filtered_data'))
              /\ ~RLess(rect_fraction', rect_fraction)
        /\ vt_pc' = "done" =>
              /\ ~RLess(rect_fraction, fraction_th) \/ iter_finished = iter_th
              /\ UNCHANGED <<filtered_data, winning_centers, rect_fraction, iter_finished>>
        /\ (vt_pc' = "loop" /\ iter_finished' = iter_finished) =>
              UNCHANGED <<filtered_data, winning_centers, rect_fraction>>

\* C13: in every iteration the recorded winner is a center covering (distance
\* strictly below the threshold) a maximal number of the remaining points,
\* exactly the points it covers are removed, the covered fraction never
\* decreases; the loop ends exactly when the covered fraction has reached
\* fraction_th or iter_th iterations are done, so on return the covered
\* fraction is >= fraction_th or the number of winners is iter_th.
C13_GreedyCover ==
    /\ [][C13_Step]_vars
    /\ [](vt_pc = "done" =>
             \/ ~RLess(rect_fraction, fraction_th)
             \/ Len(winning_centers) = iter_th)
\* The budget ran out after two winners, the target fraction not reached.
C13_Witness ==
    /\ vt_pc = "done"
    /\ Len(winning_centers) = 2
    /\ winning_centers[1] # winning_centers[2]
    /\ RLess(rect_fraction, fraction_th)

\* The points of the call with tilt below r.
Excluded == {j \in 1 .. Len(vt_data) : vt_data[j][1] * vt_r[2] < vt_r[1]}
\* How often point p occurs in a sequence.
Occurrences(seq, p) == Cardinality({j \in 1 .. Len(seq) : seq[j] = p})

C14_CallStep ==
    (vt_pc = "idle" /\ vt_pc' = "loop") =>
        /\ filtered_data' = Without(vt_data', Excluded', 1)
        /\ SameFraction(rect_fraction', <<Cardinality(Excluded'), Len(vt_data')>>)
        /\ winning_centers' = <<>>

\* C14: the points with tilt below r are removed before any voting, are never
\* among the points a winner covers or is counted for, and count as covered:
\* the covered fraction before the first iteration is (number of points with
\* tilt < r) / (number of points); when that is >= fraction_th no winner is
\* returned.
C14_IdentityExcluded ==
    /\ [][C14_CallStep]_vars
    /\ [](vt_pc # "idle" =>
             /\ \A j \in 1 .. Len(filtered_data) :
                   /\ filtered_data[j][1] * vt_r[2] >= vt_r[1]
                   /\ Occurrences(filtered_data, filtered_data[j])
                          <= Occurrences(vt_data, filtered_data[j])
             /\ SameFraction(rect_fraction, CoveredFraction(filtered_data))
             /\ ~RLess(rect_fraction, <<Cardinality(Excluded), Len(vt_data)>>))
    /\ []((vt_pc = "done"
             /\ ~RLess(<<Cardinality(Excluded), Len(vt_data)>>, fraction_th))
            => winning_centers = <<>>)
\* Enough points around the identity: the call returns no winner although a
\* point is left that a center covers.
C14_Witness ==
    /\ vt_pc = "done"
    /\ iter_th >= 1
    /\ Excluded # {}
    /\ ~RLess(<<Cardinality(Excluded), Len(vt_data)>>, fraction_th)
    /\ winning_centers = <<>>
    /\ \E j \in 1 .. Len(filtered_data) :
          \E i \in 1 .. Len(vt_centers) : WithinThreshold(vt_centers[i], filtered_data[j])

\* C26: within one call of vote() every recorded winner covered at least one
\* still-remaining point when it was chosen, and so no candidate center
\* appears more than once in the list of winners.
C26_WinnerCovers ==
    winning_centers' # winning_centers =>
        \E j \in 1 .. Len(filtered_data) :
            WithinThreshold(winning_centers'[Len(winning_centers')], filtered_data[j])
C26_NoRepeatedWinner ==
    \A i, j \in 1 .. Len(winning_centers) :
        i # j => winning_centers[i] # winning_centers[j]
C26_WinnersCoverAndDiffer ==
    [](vt_pc # "idle" => C26_NoRepeatedWinner)
        /\ [][vt_pc = "loop" => C26_WinnerCovers]_vars

\* ========================================================================
\* affnet.py: compose_lin_maps, decompose_lin_maps
\* ------------------------------------------------------------------------
\* A 2x2 map is <<row, row>> of exact rationals. Angles are multiples of
\* pi/2 here, which makes every rotation matrix exact.
QuarterCos(k) == CASE k % 4 = 0 -> <<1, 1>> [] k % 4 = 2 -> <<-1, 1>> [] OTHER -> <<0, 1>>
QuarterSin(k) == CASE k % 4 = 1 -> <<1, 1>> [] k % 4 = 3 -> <<-1, 1>> [] OTHER -> <<0, 1>>
RNeg(a) == <<-a[1], a[2]>>
RAbs(a) == <<Abs(a[1]), a[2]>>
ISqrt(n) == CHOOSE k \in 0 .. n : k * k = n
RSqrt(a) == <<ISqrt(a[1]), ISqrt(a[2])>>

MatEntry(A, B, i, j) == RAdd(RMul(A[i][1], B[1][j]), RMul(A[i][2], B[2][j]))
MatMul(A, B) ==
    <<<<MatEntry(A, B, 1, 1), MatEntry(A, B, 1, 2)>>,
      <<MatEntry(A, B, 2, 1), MatEntry(A, B, 2, 2)>>>>
MatScale(l, A) ==
    <<<<RMul(l, A[1][1]), RMul(l, A[1][2])>>, <<RMul(l, A[2][1]), RMul(l, A[2][2])>>>>
Transpose(A) == <<<<A[1][1], A[2][1]>>, <<A[1][2], A[2][2]>>>>
Det2(A) == RSub(RMul(A[1][1], A[2][2]), RMul(A[1][2], A[2][1]))
Eye2 == <<<<RInt(1), RInt(0)>>, <<RInt(0), RInt(1)>>>>

\* get_rotation_matrices inside compose_lin_maps (lines 311-316)
get_rotation_matrices(angle) ==
    <<<<QuarterCos(angle), RNeg(QuarterSin(angle))>>,
      <<QuarterSin(angle), QuarterCos(angle)>>>>
\* T_ts (lines 321-324)
T_ts(t) == <<<<t, RInt(0)>>, <<RInt(0), RInt(1)>>>>

\* compose_lin_maps for one element of the batch (lines 305-327); the default
\* of lambdas is 1 / sqrt(ts) and the default of psis is 0.
ComposeOne(t, phi, lambda, psi) ==
    MatMul(MatMul(MatScale(lambda, get_rotation_matrices(psi)), T_ts(t)),
           get_rotation_matrices(phi))
compose_lin_maps(ts, phis, lambdas, psis) ==
    [i \in 1 .. Len(ts) |->
        ComposeOne(ts[i], phis[i],
                   IF lambdas = <<>> THEN RDiv(RInt(1), RSqrt(ts[i])) ELSE lambdas[i],
                   IF psis = <<>> THEN 0 ELSE psis[i])]

\* torch.inverse (line 334) of an invertible map
Inverse(A) ==
    MatScale(RDiv(RInt(1), Det2(A)),
             <<<<A[2][2], RNeg(A[1][2])>>, <<RNeg(A[2][1]), A[1][1]>>>>)
IsSingular(A) == Det2(A) = RInt(0)

\* torch.svd (line 362) of an invertible map whose rows and columns are
\* orthogonal (a scaled signed permutation): the singular values are the
\* absolute values of the two entries, in descending order, and U, V are
\* signed permutations with U diag(s) V^T equal to the map. The signs of
\* the singular vectors (and, for equal singular values, their order) are
\* not fixed by torch.svd: a convention <<swap, sign1, sign2>> stands for
\* the choice that the build makes.
Signs == {-1, 1}
Conventions == {<<sw, a, b>> : sw \in BOOLEAN, a \in Signs, b \in Signs}
SignedPermutation(conv) ==
    IF conv[1]
    THEN <<<<RInt(0), RInt(conv[3])>>, <<RInt(conv[2]), RInt(0)>>>>
    ELSE <<<<RInt(conv[2]), RInt(0)>>, <<RInt(0), RInt(conv[3])>>>>
LargestEntry(A) ==
    LET e == {RAbs(A[i][j]) : i \in 1 .. 2, j \in 1 .. 2}
    IN CHOOSE x \in e : \A y \in e : ~RLess(x, y)
SingularValues(A) == <<LargestEntry(A), RDiv(RAbs(Det2(A)), LargestEntry(A))>>
\* V with A = U diag(s) V^T, i.e. V = A^T U diag(1 / s)
RightFactor(A, U, s) ==
    LET AU == MatMul(Transpose(A), U)
    IN <<<<RDiv(AU[1][1], s[1]), RDiv(AU[1][2], s[2])>>,
         <<RDiv(AU[2][1], s[1]), RDiv(AU[2][2], s[2])>>>>
\* F applied to the value of v
Strict(v, F(_)) == CHOOSE r \in {F(x) : x \in {v}} : TRUE
IsOrthogonal(A) == Strict(A, LAMBDA X : MatMul(Transpose(X), X) = Eye2)
svd(A, conv) ==
    Strict(SingularValues(A), LAMBDA s :
        Strict(IF IsOrthogonal(RightFactor(A, SignedPermutation(conv), s))
               THEN SignedPermutation(conv)
               ELSE SignedPermutation(<<~conv[1], conv[2], conv[3]>>),
               LAMBDA U : <<U, s, RightFactor(A, U, s)>>))

\* Variant for comparison: the division by the first singular value
NormaliseByFirst(s) == <<RDiv(s[1], s[1]), RDiv(s[2], s[1])>>
\* s = s / s[:, :, 1:] (line 373)
Normalise(s) == <<RDiv(s[1], s[2]), RDiv(s[2], s[2])>>

Sgn(x) == IF x[1] > 0 THEN 1 ELSE IF x[1] < 0 THEN -1 ELSE 0
\* swap_rows (lines 385-389): the two rows are exchanged where dets_v < 0
swap_rows(A, dets_v) == IF RLess(dets_v, RInt(0)) THEN <<A[2], A[1]>> ELSE A
\* arccos and arcsin of -1, 0, 1, in units of pi/2
ArcCos(x) == CASE x = RInt(1) -> 0 [] x = RInt(0) -> 1 [] x = RInt(-1) -> 2
ArcSin(x) == CASE x = RInt(1) -> 1 [] x = RInt(0) -> 0 [] x = RInt(-1) -> -1
\* assert_rotation (lines 405-410)
assert_rotation(A, angle) ==
    /\ QuarterSin(angle) = RNeg(A[1][2])
    /\ QuarterSin(angle) = A[2][1]
    /\ A[2][2] = A[1][1]

\* decompose_lin_maps for one invertible element of the batch, in the order
\* of the code; ok is what the asserts met so far evaluate to.
\* Lines 362-383: the factors of the inverted map, the signs, lambdas and the
\* normalised singular values.
Factored(usv) ==
    LET factor == RInt(Sgn(usv[2][1]))
        U == MatScale(factor, usv[1])
        V == Transpose(usv[3])
        s == <<RMul(factor, usv[2][1]), RMul(factor, usv[2][2])>>
    IN Strict(<<U, V, Normalise(s)>>, LAMBDA n :
          [U |-> n[1], V |-> n[2], s |-> n[3], lambdas |-> s[2],
           ok |-> /\ Sgn(usv[2][1]) = Sgn(usv[2][2]) /\ usv[2][1] # RInt(0)
                  /\ ~RLess(n[3][1], RInt(1)) /\ n[3][2] = RInt(1)
                  /\ Det2(n[1]) = Det2(n[2]) /\ RAbs(Det2(n[2])) = RInt(1)])
\* Lines 385-403: the rows are swapped where det(V) < 0, then both factors
\* are negated where V[0, 1] > 0.
Oriented(f) ==
    Strict(<<swap_rows(f.U, Det2(f.V)), swap_rows(f.V, Det2(f.V))>>, LAMBDA w :
        LET phi_norm_factor == IF RLess(RInt(0), w[2][1][2]) THEN RInt(-1) ELSE RInt(1)
        IN [U |-> MatScale(phi_norm_factor, w[1]),
            V |-> MatScale(phi_norm_factor, w[2]),
            s |-> f.s, lambdas |-> f.lambdas,
            ok |-> f.ok /\ Det2(w[1]) = Det2(w[2]) /\ Det2(w[2]) = RInt(1)])
\* Lines 405-430: the angles, their checks, and the returned tuple.
Angles(o) ==
    LET phis == ArcCos(o.V[1][1])
        psis == ArcSin(RNeg(o.U[1][2]))
    IN [passed |-> o.ok /\ assert_rotation(o.V, phis) /\ assert_rotation(o.U, psis),
        s |-> o.s,
        ret |-> <<o.lambdas, psis, o.s[1], phis>>]
DecomposeOne(map, conv) ==
    Strict(Inverse(map), LAMBDA inv :
        Strict(svd(inv, conv), LAMBDA usv :
            Strict(Factored(usv), LAMBDA f :
                Strict(Oriented(f), LAMBDA o : Angles(o)))))

MaxBatch == 2
LmTilts == {RInt(1), RInt(4)}
LmPhis == {0, 1}
LmPsis == {0, 1}
LmLambdas == {<<1, 2>>, RInt(1)}
\* maps given to decompose_lin_maps directly: a reflection with tilt, the
\* exchange of the axes, two singular maps, and two maps of positive
\* determinant
GivenMaps ==
    {<<<<RInt(2), RInt(0)>>, <<RInt(0), RInt(-1)>>>>,
     <<<<RInt(0), RInt(1)>>, <<RInt(1), RInt(0)>>>>,
     <<<<RInt(1), RInt(1)>>, <<RInt(1), RInt(1)>>>>,
     <<<<RInt(1), RInt(0)>>, <<RInt(0), RInt(0)>>>>,
     <<<<RInt(1), RInt(0)>>, <<RInt(0), RInt(2)>>>>,
     <<<<RInt(0), RInt(-3)>>, <<RInt(1), RInt(0)>>>>}
ComposedMaps ==
    {ComposeOne(t, phi, lambda, psi) :
        t \in LmTilts, phi \in LmPhis, lambda \in LmLambdas, psi \in LmPsis}
DecomposeTable ==
    [m \in {x \in GivenMaps \cup ComposedMaps : ~IsSingular(x)} |->
        [conv \in Conventions |-> DecomposeOne(m, conv)]]
Batches(S) == UNION {[1 .. n -> S] : n \in 1 .. MaxBatch}

lmOthers == <<ccVars, kmVars, clVars, dmVars, vtVars, rrVars, dhVars, plVars,
              extVars>>
InitLinMaps == AllIdle

\* compose_lin_maps is called and its result is handed to decompose_lin_maps.
\* lambdas = None needs 1 / sqrt(ts), which is exact for the tilts used.
LmCompose ==
    /\ lm_pc = "idle"
    /\ \E n \in 1 .. MaxBatch :
          /\ lm_ts' \in [1 .. n -> LmTilts]
          /\ lm_phis' \in [1 .. n -> LmPhis]
          /\ lm_lambdas' \in [1 .. n -> LmLambdas] \cup {<<>>}
          /\ lm_psis' \in [1 .. n -> LmPsis] \cup {<<>>}
    /\ asserts' \in BOOLEAN
    /\ l_maps' = compose_lin_maps(lm_ts', lm_phis', lm_lambdas', lm_psis')
    /\ lm_pc' = "call"
    /\ UNCHANGED <<lm_s, lm_out, lmOthers>>

\* decompose_lin_maps is called on maps that did not come from compose_lin_maps.
LmGiven ==
    /\ lm_pc = "idle"
    /\ l_maps' \in Batches(GivenMaps)
    /\ asserts' \in BOOLEAN
    /\ lm_pc' = "call"
    /\ UNCHANGED <<lm_ts, lm_phis, lm_lambdas, lm_psis, lm_s, lm_out, lmOthers>>

\* decompose_lin_maps (lines 330-430). torch.inverse raises a RuntimeError
\* for a singular map; every assert is a torch.all over the batch and is
\* evaluated only if asserts is set.
decompose_lin_maps ==
    /\ lm_pc = "call"
    /\ IF \E i \in 1 .. Len(l_maps) : IsSingular(l_maps[i])
       THEN /\ lm_pc' = "RuntimeError"
            /\ UNCHANGED <<lm_s, lm_out>>
       ELSE \E conv \in Conventions :
               LET d == [i \in 1 .. Len(l_maps) |-> DecomposeTable[l_maps[i]][conv]]
               IN IF asserts /\ \E i \in 1 .. Len(l_maps) : ~d[i].passed
                  THEN /\ lm_pc' = "AssertionError"
                       /\ UNCHANGED <<lm_s, lm_out>>
                  ELSE /\ lm_pc' = "done"
                       /\ lm_s' = [i \in 1 .. Len(l_maps) |-> d[i].s]
                       /\ lm_out' = [i \in 1 .. Len(l_maps) |-> d[i].ret]
    /\ UNCHANGED <<lm_ts, lm_phis, lm_lambdas, lm_psis, l_maps, asserts, lmOthers>>

NextLinMaps == LmCompose \/ LmGiven \/ decompose_lin_maps
SpecLinMaps == InitLinMaps /\ [][NextLinMaps]_vars

\* ------------------------------------------------------------------------
\* Claims about the linear-map codec
\* ------------------------------------------------------------------------
\* The parameters that compose_lin_maps used for element i
UsedLambda(i) ==
    IF lm_lambdas = <<>> THEN RDiv(RInt(1), RSqrt(lm_ts[i])) ELSE lm_lambdas[i]
UsedPsi(i) == IF lm_psis = <<>> THEN 0 ELSE lm_psis[i]

\* C15: decompose_lin_maps(compose_lin_maps(t, phi, lambda, psi)) returns
\* the same (lambda, psi, t, phi) for lambda > 0, t >= 1, phi in [0, pi) and
\* psi in (-pi/2, pi/2]. "The same modulo the normalisation" is read in the
\* weakest way: the same lambda, the same t, and angles that compose to the
\* same map.
C15_RoundTrip ==
    (lm_pc \in {"done", "AssertionError", "RuntimeError"} /\ lm_ts # <<>>) =>
        /\ lm_pc = "done"
        /\ \A i \in 1 .. Len(lm_ts) :
              /\ lm_out[i][1] = UsedLambda(i)
              /\ lm_out[i][3] = lm_ts[i]
              /\ ComposeOne(lm_out[i][3], lm_out[i][4], lm_out[i][1], lm_out[i][2])
                    = l_maps[i]

\* C16: for every invertible map that decompose_lin_maps decomposes, the
\* returned tilt t is >= 1, the second normalised singular value is exactly
\* 1, and the returned lambda is the singular value the others were
\* divided by (the second singular value of the inverted map).
C16_TiltNormalised ==
    lm_pc = "done" =>
        \A i \in 1 .. Len(l_maps) :
            /\ ~RLess(lm_out[i][3], RInt(1))
            /\ lm_s[i][2] = RInt(1)
            /\ lm_out[i][3] = lm_s[i][1]
            /\ lm_out[i][1] = SingularValues(Inverse(l_maps[i]))[2]
            /\ RMul(lm_out[i][3], lm_out[i][1]) = SingularValues(Inverse(l_maps[i]))[1]
\* A batch of two maps with different tilts, one of them greater than 1,
\* has been decomposed.
C16_Witness ==
    /\ lm_pc = "done"
    /\ Len(l_maps) = MaxBatch
    /\ \E i, j \in 1 .. Len(l_maps) :
          /\ RLess(RInt(1), lm_out[i][3])
          /\ lm_out[j][3] # lm_out[i][3]

\* A map has a zero singular value iff its determinant is 0; written as
\* rotation * diag(s0, s1) * rotation it has s0 and s1 of mixed sign iff its
\* determinant is negative.
ZeroSingularValue(map) == IsSingular(map)
MixedSignSingularValues(map) == RLess(Det2(map), RInt(0))
\* C17: decompose_lin_maps fails, and returns no decomposition, whenever
\* some map of the batch has a zero singular value or singular values of
\* mixed sign, whatever the asserts flag is. Any error counts as the failure.
C17_DegenerateMapFails ==
    (/\ lm_pc \in {"done", "RuntimeError", "AssertionError"}
     /\ \E i \in 1 .. Len(l_maps) :
           ZeroSingularValue(l_maps[i]) \/ MixedSignSingularValues(l_maps[i]))
        => (lm_pc \in {"RuntimeError", "AssertionError"} /\ lm_out = <<>>)

\* ========================================================================
\* transforms.py: get_rotation_matrices_torch, get_rectification_rotations
\* ------------------------------------------------------------------------
\* Floating-point values that may be NaN: an exact rational, or <<0, 0>> for
\* NaN. The only division by zero that the code can meet is 0 / 0.
RNaN == <<0, 0>>
IsNaN(a) == a[2] = 0
XAdd(a, b) == IF IsNaN(a) \/ IsNaN(b) THEN RNaN ELSE RAdd(a, b)
XMul(a, b) == IF IsNaN(a) \/ IsNaN(b) THEN RNaN ELSE RMul(a, b)
XNeg(a) == IF IsNaN(a) THEN RNaN ELSE RNeg(a)
XDiv(a, b) == IF IsNaN(a) \/ IsNaN(b) \/ b[1] = 0 THEN RNaN ELSE RDiv(a, b)

Z0 == RInt(0)
Eye3 == <<<<RInt(1), Z0, Z0>>, <<Z0, RInt(1), Z0>>, <<Z0, Z0, RInt(1)>>>>
Mat3Entry(A, B, i, j) ==
    XAdd(XAdd(XMul(A[i][1], B[1][j]), XMul(A[i][2], B[2][j])), XMul(A[i][3], B[3][j]))
Mat3Row(A, B, i) == <<Mat3Entry(A, B, i, 1), Mat3Entry(A, B, i, 2), Mat3Entry(A, B, i, 3)>>
Mat3Mul(A, B) == <<Mat3Row(A, B, 1), Mat3Row(A, B, 2), Mat3Row(A, B, 3)>>
Mat3Scale(l, A) ==
    <<<<XMul(l, A[1][1]), XMul(l, A[1][2]), XMul(l, A[1][3])>>,
      <<XMul(l, A[2][1]), XMul(l, A[2][2]), XMul(l, A[2][3])>>,
      <<XMul(l, A[3][1]), XMul(l, A[3][2]), XMul(l, A[3][3])>>>>
Mat3Add(A, B) ==
    <<<<XAdd(A[1][1], B[1][1]), XAdd(A[1][2], B[1][2]), XAdd(A[1][3], B[1][3])>>,
      <<XAdd(A[2][1], B[2][1]), XAdd(A[2][2], B[2][2]), XAdd(A[2][3], B[2][3])>>,
      <<XAdd(A[3][1], B[3][1]), XAdd(A[3][2], B[3][2]), XAdd(A[3][3], B[3][3])>>>>
Minor(A, r1, r2, c1, c2) ==
    XAdd(XMul(A[r1][c1], A[r2][c2]), XNeg(XMul(A[r1][c2], A[r2][c1])))
Det3(A) ==
    XAdd(XAdd(XMul(A[1][1], Minor(A, 2, 3, 2, 3)),
              XNeg(XMul(A[1][2], Minor(A, 2, 3, 1, 3)))),
         XMul(A[1][3], Minor(A, 2, 3, 1, 2)))

\* get_rotation_matrices_torch (lines 4-36), the Rodrigues formula. An angle
\* is given by its <<sine, cosine>>.
get_rotation_matrices_torch(u, angle) ==
    Strict(<<<<Z0, XNeg(u[3]), u[2]>>,
             <<u[3], Z0, XNeg(u[1])>>,
             <<XNeg(u[2]), u[1], Z0>>>>, LAMBDA K :
        Strict(Mat3Mul(Mat3Scale(RSub(RInt(1), angle[2]), K), K), LAMBDA c :
            Mat3Add(Mat3Add(Eye3, Mat3Scale(angle[1], K)), c)))

\* torch.cross (line 51) and torch.linalg.norm (line 52); the norms met here
\* are rational
Cross(a, b) ==
    <<RSub(RMul(a[2], b[3]), RMul(a[3], b[2])),
      RSub(RMul(a[3], b[1]), RMul(a[1], b[3])),
      RSub(RMul(a[1], b[2]), RMul(a[2], b[1]))>>
Norm3(v) == RSqrt(RAdd(RAdd(RMul(v[1], v[1]), RMul(v[2], v[2])), RMul(v[3], v[3])))
\* torch.asin (line 54) of x in [0, 1]: the angle with sine x and cosine sqrt(1 - x^2)
Asin(x) == <<x, RSqrt(RSub(RInt(1), RMul(x, x)))>>
\* check_R (lines 56-68) for one matrix: |det - 1| < 10^-2, 10^-3, 10^-4;
\* a comparison with NaN is false
Thresholds == {<<1, 100>>, <<1, 1000>>, <<1, 10000>>}
check_R(R) ==
    Strict(Det3(R), LAMBDA det :
        /\ ~IsNaN(det)
        /\ \A th \in Thresholds : RLess(RAbs(RSub(det, RInt(1))), th))

\* lines 46-54 and 70 for one normal of the batch
RectificationRotation(normal) ==
    Strict(<<RNeg(normal[1]), RNeg(normal[2]), RNeg(normal[3])>>, LAMBDA n :
        Strict(Cross(<<Z0, Z0, RInt(1)>>, n), LAMBDA rotation_vectors :
            Strict(Norm3(rotation_vectors), LAMBDA rotation_vector_norms :
                get_rotation_matrices_torch(
                    <<XDiv(rotation_vectors[1], rotation_vector_norms),
                      XDiv(rotation_vectors[2], rotation_vector_norms),
                      XDiv(rotation_vectors[3], rotation_vector_norms)>>,
                    Asin(rotation_vector_norms)))))

MaxNormals == 2
\* unit normals with rational coordinates; the first four face the camera
UnitNormals ==
    {<<Z0, Z0, RInt(-1)>>, <<<<-3, 5>>, Z0, <<-4, 5>>>>, <<Z0, <<3, 5>>, <<-4, 5>>>>,
     <<<<4, 5>>, Z0, <<-3, 5>>>>,
     <<Z0, Z0, RInt(1)>>, <<<<3, 5>>, Z0, <<4, 5>>>>, <<RInt(1), Z0, Z0>>}
RotationTable == [n \in UnitNormals |-> RectificationRotation(n)]
CheckTable == [n \in UnitNormals |-> check_R(RotationTable[n])]

rrOthers == <<ccVars, kmVars, clVars, dmVars, vtVars, lmVars, dhVars, plVars,
              extVars>>
InitRect == AllIdle

RrCall ==
    /\ rr_pc = "idle"
    /\ rr_normals' \in UNION {[1 .. n -> UnitNormals] : n \in 1 .. MaxNormals}
    /\ rr_pc' = "call"
    /\ UNCHANGED <<rr_R, rr_failed, rrOthers>>

\* get_rectification_rotations (lines 39-72)
get_rectification_rotations ==
    /\ rr_pc = "call"
    /\ IF \E i \in 1 .. Len(rr_normals) : ~RLess(Z0, RNeg(rr_normals[i][3]))
       THEN /\ rr_pc' = "AssertionError"
            /\ rr_failed' = "torch.all(normals[:, 2] > 0)"
            /\ UNCHANGED rr_R
       ELSE IF \E i \in 1 .. Len(rr_normals) : ~CheckTable[rr_normals[i]]
       THEN /\ rr_pc' = "AssertionError"
            /\ rr_failed' = "torch.all((det - 1.0).abs() < th)"
            /\ UNCHANGED rr_R
       ELSE /\ rr_pc' = "done"
            /\ rr_R' = [i \in 1 .. Len(rr_normals) |-> RotationTable[rr_normals[i]]]
            /\ UNCHANGED rr_failed
    /\ UNCHANGED <<rr_normals, rrOthers>>

NextRect == RrCall \/ get_rectification_rotations
SpecRect == InitRect /\ [][NextRect]_vars

\* ------------------------------------------------------------------------
\* Claims about get_rectification_rotations
\* ------------------------------------------------------------------------
FrontFacing(normal) == RLess(Z0, RNeg(normal[3]))
\* C18: if the negation of every normal has a positive z-component (the
\* normal (0, 0, -1) included) the call does not fail and returns rotation
\* matrices with |det(R) - 1| below the tolerance; otherwise it fails with
\* the back-facing-normal error and returns no rotation.
C18_RotationOrBackfacingError ==
    rr_pc \in {"done", "AssertionError"} =>
        IF \A i \in 1 .. Len(rr_normals) : FrontFacing(rr_normals[i])
        THEN /\ rr_pc = "done"
             /\ Len(rr_R) = Len(rr_normals)
             /\ \A i \in 1 .. Len(rr_R) :
                   /\ ~IsNaN(Det3(rr_R[i]))
                   /\ RLess(RAbs(RSub(Det3(rr_R[i]), RInt(1))), <<1, 100000>>)
        ELSE /\ rr_pc = "AssertionError"
             /\ rr_failed = "torch.all(normals[:, 2] > 0)"
             /\ rr_R = <<>>

\* ========================================================================
\* transforms.py: decompose_homographies
\* ------------------------------------------------------------------------
\* KR = Hs[:, :2, :2] (line 89)
KROf(H) == <<<<H[1][1], H[1][2]>>, <<H[2][1], H[2][2]>>>>
\* Variant for comparison: the translation column taken without the sign
KRtUnnegated(H) == <<H[1][3], H[2][3]>>
\* KRt = -Hs[:, :2, 2:3] (line 90), a column
KRtOf(H) == <<RNeg(H[1][3]), RNeg(H[2][3])>>
\* torch.allclose(input, other, rtol, atol): |input - other| <= atol + rtol * |other|
AllClose(A, B, rtol, atol) ==
    \A i \in 1 .. 3 : \A j \in 1 .. 3 :
        ~RLess(RAdd(atol, RMul(rtol, RAbs(B[i][j]))), RAbs(RSub(A[i][j], B[i][j])))

\* lines 89-110 for one homography with an invertible KR; passed is what the
\* asserts of lines 103 and 110 evaluate to
DecomposeHomography(H) ==
    Strict(<<KROf(H), KRtOf(H), Inverse(KROf(H))>>, LAMBDA k :
        Strict(<<RAdd(RMul(H[3][1], k[3][1][1]), RMul(H[3][2], k[3][2][1])),
                 RAdd(RMul(H[3][1], k[3][1][2]), RMul(H[3][2], k[3][2][2]))>>, LAMBDA a_t :
            Strict(RAdd(RAdd(RMul(a_t[1], k[2][1]), RMul(a_t[2], k[2][2])), H[3][3]), LAMBDA b :
                Strict(<<<<<<RInt(1), Z0, Z0>>, <<Z0, RInt(1), Z0>>, <<a_t[1], a_t[2], b>>>>,
                         <<<<k[1][1][1], k[1][1][2], RNeg(k[2][1])>>,
                           <<k[1][2][1], k[1][2][2], RNeg(k[2][2])>>,
                           <<Z0, Z0, RInt(1)>>>>>>, LAMBDA pa :
                    [pure_homographies |-> pa[1],
                     affines |-> pa[2],
                     passed |-> /\ pa[2][3][1] = Z0 /\ pa[2][3][2] = Z0
                                /\ AllClose(Mat3Mul(pa[1], pa[2]), H, <<1, 10>>, <<1, 10>>)]))))

MaxHs == 2
\* homographies put together from an upper-left block (the last one is
\* singular), a translation column and a bottom row
Blocks ==
    {<<<<RInt(1), Z0>>, <<Z0, RInt(1)>>>>, <<<<RInt(2), RInt(1)>>, <<Z0, RInt(1)>>>>,
     <<<<Z0, RInt(-1)>>, <<RInt(3), Z0>>>>, <<<<RInt(1), RInt(2)>>, <<RInt(2), RInt(4)>>>>}
Columns == {<<Z0, Z0>>, <<RInt(1), RInt(-2)>>}
BottomRows == {<<Z0, Z0, RInt(1)>>, <<RInt(1), Z0, RInt(1)>>, <<<<1, 2>>, RInt(2), RInt(3)>>}
Homographies ==
    {<<<<kr[1][1], kr[1][2], c[1]>>, <<kr[2][1], kr[2][2], c[2]>>, r>> :
        kr \in Blocks, c \in Columns, r \in BottomRows}
HomographyTable ==
    [H \in {x \in Homographies : ~IsSingular(KROf(x))} |-> DecomposeHomography(H)]

dhOthers == <<ccVars, kmVars, clVars, dmVars, vtVars, lmVars, rrVars, plVars,
              extVars>>
InitHom == AllIdle

DhCall ==
    /\ dh_pc = "idle"
    /\ Hs' \in UNION {[1 .. n -> Homographies] : n \in 1 .. MaxHs}
    /\ dh_pc' = "call"
    /\ UNCHANGED <<pure_homographies, affines, dhOthers>>

\* decompose_homographies (lines 75-111); torch.inverse raises a RuntimeError
\* for a singular block.
decompose_homographies ==
    /\ dh_pc = "call"
    /\ IF \E i \in 1 .. Len(Hs) : IsSingular(KROf(Hs[i]))
       THEN /\ dh_pc' = "RuntimeError"
            /\ UNCHANGED <<pure_homographies, affines>>
       ELSE IF \E i \in 1 .. Len(Hs) : ~HomographyTable[Hs[i]].passed
       THEN /\ dh_pc' = "AssertionError"
            /\ UNCHANGED <<pure_homographies, affines>>
       ELSE /\ dh_pc' = "done"
            /\ pure_homographies' =
                  [i \in 1 .. Len(Hs) |-> HomographyTable[Hs[i]].pure_homographies]
            /\ affines' = [i \in 1 .. Len(Hs) |-> HomographyTable[Hs[i]].affines]
    /\ UNCHANGED <<Hs, dhOthers>>

NextHom == DhCall \/ decompose_homographies
SpecHom == InitHom /\ [][NextHom]_vars

\* ------------------------------------------------------------------------
\* Claims about decompose_homographies
\* ------------------------------------------------------------------------
\* C19: for homographies whose upper-left 2x2 block is invertible,
\* decompose_homographies returns (P, A) with P * A = H exactly, the top two
\* rows of P equal to [I | 0], and the bottom row of A equal to (0, 0, 1).
C19_ProductReconstructs ==
    (/\ dh_pc \in {"done", "RuntimeError", "AssertionError"}
     /\ \A i \in 1 .. Len(Hs) : ~IsSingular(KROf(Hs[i])))
        => /\ dh_pc = "done"
           /\ Len(pure_homographies) = Len(Hs) /\ Len(affines) = Len(Hs)
           /\ \A i \in 1 .. Len(Hs) :
                 /\ Mat3Mul(pure_homographies[i], affines[i]) = Hs[i]
                 /\ pure_homographies[i][1] = <<RInt(1), Z0, Z0>>
                 /\ pure_homographies[i][2] = <<Z0, RInt(1), Z0>>
                 /\ affines[i][3] = <<Z0, Z0, RInt(1)>>
\* A batch of two different homographies has been decomposed, one of them
\* with a non-zero translation column and a projective bottom row.
C19_Witness ==
    /\ dh_pc = "done"
    /\ Len(Hs) = MaxHs
    /\ Hs[1] # Hs[2]
    /\ \E i \in 1 .. Len(Hs) :
          /\ <<Hs[i][1][3], Hs[i][2][3]>> # <<Z0, Z0>>
          /\ <<Hs[i][3][1], Hs[i][3][2]>> # <<Z0, Z0>>
          /\ KROf(Hs[i]) # Eye2
          /\ pure_homographies[i] # Eye3

\* ========================================================================
\* pipeline.py: run_matching_pipeline, run_sequential_pipeline
\* ------------------------------------------------------------------------
\* What processing an item does: <<stage, exception>>. Stage "none" is an
\* item processed without an exception, "process_image" an exception raised
\* inside process_image, "matching" one raised after both images were
\* processed (rotation estimate, rectification, do_matching). A degenerate
\* map and a back-facing normal surface as AssertionError, a missing
\* dominant plane as RuntimeError.
Exceptions == {"AssertionError", "RuntimeError"}
Processed == <<"none", "">>
PairOutcomes ==
    {Processed} \cup {<<st, e>> : st \in {"process_image", "matching"}, e \in Exceptions}
ImageOutcomes == {Processed} \cup {<<"process_image", e>> : e \in Exceptions}
MaxItems == 3
ItemLists(S) == UNION {[1 .. n -> S] : n \in 0 .. MaxItems}

plOthers == <<ccVars, kmVars, clVars, dmVars, vtVars, lmVars, rrVars, dhVars,
              extVars>>
InitPipeline == AllIdle

\* run_matching_pipeline is entered (lines 1030-1036), with the image pairs
\* of one difficulty; matching_pairs is None.
RunMatching ==
    /\ pl_pc = "idle"
    /\ pl_mode' = "matching"
    /\ pl_items' \in ItemLists(PairOutcomes)
    /\ matching_limit' \in -1 .. MaxItems - 1
    /\ pl_idx' = 1
    /\ pl_pc' = "loop"
    /\ UNCHANGED <<processed_pairs, pl_entered, pl_completed, stats_saved, plOthers>>

\* the limit of line 1054
LimitReached == matching_limit # -1 /\ processed_pairs >= matching_limit

\* One pass of the loop over the pairs (lines 1045-1111): both excepts are
\* bare, and the pair is skipped whatever was raised.
MatchPair ==
    /\ pl_pc = "loop" /\ pl_mode = "matching"
    /\ pl_idx <= Len(pl_items)
    /\ ~LimitReached
    /\ pl_entered' = pl_entered \cup {pl_idx}
    /\ IF pl_items[pl_idx] = Processed
       THEN /\ pl_completed' = pl_completed \cup {pl_idx}
            /\ processed_pairs' = processed_pairs + 1
       ELSE UNCHANGED <<pl_completed, processed_pairs>>
    /\ pl_idx' = pl_idx + 1
    /\ UNCHANGED <<pl_mode, pl_items, matching_limit, stats_saved, pl_pc, plOthers>>

\* The loop over the pairs ends, by exhaustion or by the break of line 1056,
\* and the statistics of the difficulty are written (lines 1118-1120).
MatchingDone ==
    /\ pl_pc = "loop" /\ pl_mode = "matching"
    /\ pl_idx > Len(pl_items) \/ LimitReached
    /\ stats_saved' = TRUE
    /\ pl_pc' = "done"
    /\ UNCHANGED <<pl_mode, pl_items, matching_limit, pl_idx, processed_pairs,
                   pl_entered, pl_completed, plOthers>>

\* run_sequential_pipeline is entered (lines 766-770).
RunSequential ==
    /\ pl_pc = "idle"
    /\ pl_mode' = "sequential"
    /\ pl_items' \in ItemLists(ImageOutcomes)
    /\ pl_idx' = 1
    /\ pl_pc' = "loop"
    /\ UNCHANGED <<matching_limit, processed_pairs, pl_entered, pl_completed,
                   stats_saved, plOthers>>

\* One pass of the loop of lines 771-772: process_image is called outside
\* any try, so what it raises leaves run_sequential_pipeline.
SequentialImage ==
    /\ pl_pc = "loop" /\ pl_mode = "sequential"
    /\ pl_idx <= Len(pl_items)
    /\ pl_entered' = pl_entered \cup {pl_idx}
    /\ IF pl_items[pl_idx] = Processed
       THEN /\ pl_completed' = pl_completed \cup {pl_idx}
            /\ pl_idx' = pl_idx + 1
            /\ UNCHANGED pl_pc
       ELSE /\ pl_pc' = pl_items[pl_idx][2]
            /\ UNCHANGED <<pl_completed, pl_idx>>
    /\ UNCHANGED <<pl_mode, pl_items, matching_limit, processed_pairs, stats_saved,
                   plOthers>>

\* self.save_stats("sequential") (line 774)
SequentialDone ==
    /\ pl_pc = "loop" /\ pl_mode = "sequential"
    /\ pl_idx > Len(pl_items)
    /\ stats_saved' = TRUE
    /\ pl_pc' = "done"
    /\ UNCHANGED <<pl_mode, pl_items, matching_limit, pl_idx, processed_pairs,
                   pl_entered, pl_completed, plOthers>>

NextPipeline ==
    \/ RunMatching \/ MatchPair \/ MatchingDone
    \/ RunSequential \/ SequentialImage \/ SequentialDone
SpecPipeline == InitPipeline /\ [][NextPipeline]_vars

\* ------------------------------------------------------------------------
\* Claims about the pipelines
\* ------------------------------------------------------------------------
\* C20: an error raised while one image or pair is processed never aborts
\* the pipeline: no exception leaves run_matching_pipeline or
\* run_sequential_pipeline, and when the run is over every item was taken up
\* (unless the matching limit ended the loop), the items without an error
\* were processed to the end, and the statistics were written.
C20_ErrorsNeverAbort ==
    /\ pl_pc \notin Exceptions
    /\ pl_pc = "done" =>
          /\ stats_saved
          /\ LimitReached \/ pl_entered = 1 .. Len(pl_items)
          /\ pl_completed = {i \in pl_entered : pl_items[i] = Processed}

\* ========================================================================
\* pipeline.py: Pipeline.process_image, the valid clusters and their regions
\* ------------------------------------------------------------------------
\* A representative normal is an integer direction, as the kmeans centers.
\* plane_threshold_degrees is a threshold in degrees of at most 90, and
\* CosSquaredOfDegrees gives cos^2 of it.
ReprNormals == {<<0, 0, -1>>, <<0, 1, -1>>, <<1, 0, 0>>, <<0, 0, 1>>}
PlaneThresholds == {45, 90}
CosSquaredOfDegrees == [d \in PlaneThresholds |-> IF d = 45 THEN <<1, 2>> ELSE <<0, 1>>]
\* cluster_normals gives the representatives of the two clusters of the label
\* image (line 454).
ReprLists == {<<a, b>> : <<a, b>> \in {x \in ReprNormals \X ReprNormals : x[1] # x[2]}}
\* The label images of the calls: those of Images with a fixed lower right
\* part of the window.
ProcessImages ==
    {img \in Images : img[Pix(1, 1)] = 0 /\ img[Pix(2, 3)] = 0 /\ img[Pix(3, 2)] = 0}

\* Variant for comparison: a normal at exactly the threshold is kept
AngleBeyond(normal, threshold) ==
    SignedSquare(-normal[3]) * CosSquaredOfDegrees[threshold][2]
        < CosSquaredOfDegrees[threshold][1] * Dot(normal, normal)
\* angle_degrees >= Config.plane_threshold_degrees (lines 475-478), with
\* angle = acos(dot(normal, (0, 0, -1))): cos(angle) <= cos(threshold)
AngleTooSharp(normal, threshold) ==
    SignedSquare(-normal[3]) * CosSquaredOfDegrees[threshold][2]
        <= CosSquaredOfDegrees[threshold][1] * Dot(normal, normal)

piOthers == <<kmVars, clVars, dmVars, vtVars, lmVars, rrVars, dhVars, plVars,
              mpVars, kpVars>>
InitProcess == AllIdle

\* process_image has clustered the normals (line 454) and starts the loop of
\* line 474 with valid_normal_indices = [] (line 473).
ProcessImage ==
    /\ pi_pc = "idle"
    /\ normals_clusters_repr' \in ReprLists
    /\ plane_threshold_degrees' \in PlaneThresholds
    /\ valid_normal_indices' = <<>>
    /\ pi_i' = 0
    /\ pi_pc' = "select"
    /\ UNCHANGED <<ccVars, piOthers>>

\* One pass of `for i, normal in enumerate(normals_clusters_repr)`
\* (lines 474-483).
SelectNormal ==
    /\ pi_pc = "select"
    /\ pi_i < Len(normals_clusters_repr)
    /\ valid_normal_indices' =
           IF AngleTooSharp(normals_clusters_repr[pi_i + 1], plane_threshold_degrees)
           THEN valid_normal_indices
           ELSE Append(valid_normal_indices, pi_i)
    /\ pi_i' = pi_i + 1
    /\ UNCHANGED <<normals_clusters_repr, plane_threshold_degrees, pi_pc, ccVars,
                   piOthers>>

\* get_connected_components(normal_indices, valid_normal_indices, closing_size,
\* flood_filling, connectivity) is called (lines 485-488); fraction_threshold
\* has its default 0.03.
ExtractRegions ==
    /\ pi_pc = "select"
    /\ pi_i = Len(normals_clusters_repr)
    /\ normal_indices' \in ProcessImages
    /\ valid_indices' = valid_normal_indices
    /\ fraction_threshold' = <<3, 100>>
    /\ closing_size' \in ClosingSizes
    /\ flood_filling' \in BOOLEAN
    /\ connectivity' \in {4, 8}
    /\ out' = [p \in Pixels |-> 0]
    /\ out_valid_indices_dict' = <<>>
    /\ out_valid_indices_counter' = 0
    /\ cc_i' = 1
    /\ cc_pc' = "loop"
    /\ cc_input' = <<>>
    /\ pi_pc' = "extract"
    /\ UNCHANGED <<normals_clusters_repr, plane_threshold_degrees,
                   valid_normal_indices, pi_i, piOthers>>

\* get_connected_components has returned components_indices and
\* valid_components_dict (line 485).
RegionsExtracted ==
    /\ pi_pc = "extract"
    /\ cc_pc = "done"
    /\ pi_pc' = "done"
    /\ UNCHANGED <<normals_clusters_repr, plane_threshold_degrees,
                   valid_normal_indices, pi_i, ccVars, piOthers>>

NextProcess ==
    \/ ProcessImage \/ SelectNormal \/ ExtractRegions
    \/ CCStep \/ CCReturn \/ RegionsExtracted
SpecProcess == InitProcess /\ [][NextProcess]_vars

\* ------------------------------------------------------------------------
\* Claims about process_image
\* ------------------------------------------------------------------------
\* The angle in degrees between a representative normal and (0, 0, -1).
AngleDegrees(normal) ==
    CASE normal = <<0, 0, -1>> -> 0
      [] normal = <<0, 1, -1>> -> 45
      [] normal = <<1, 0, 0>> -> 90
      [] normal = <<0, 0, 1>> -> 180
\* The cluster indices (from 0) whose normal is nearer to (0, 0, -1) than the
\* threshold, and the ascending list of a set of indices.
NearClusters ==
    {i \in 0 .. Len(normals_clusters_repr) - 1 :
        AngleDegrees(normals_clusters_repr[i + 1]) < plane_threshold_degrees}
RECURSIVE Ascending(_)
Ascending(S) == IF S = {} THEN <<>> ELSE <<Min(S)>> \o Ascending(S \ {Min(S)})

\* C24: process_image hands to region extraction exactly the cluster indices
\* whose representative normal makes an angle strictly smaller than
\* plane_threshold_degrees with (0, 0, -1), in ascending order of the cluster
\* index; the clusters are processed in that ascending order, and every value
\* of valid_components_dict is one of those indices.
C24_HandedOver ==
    pi_pc \in {"extract", "done"} =>
        /\ valid_indices = Ascending(NearClusters)
        /\ \A g \in DOMAIN out_valid_indices_dict :
              out_valid_indices_dict[g] \in NearClusters
C24_ProcessedInOrder ==
    (pi_pc = "extract" /\ cc_i' # cc_i) =>
        /\ cc_i' = cc_i + 1
        /\ DOMAIN cc_input' = DOMAIN cc_input \cup {valid_indices[cc_i]}
        /\ \A v \in DOMAIN cc_input : v < valid_indices[cc_i]
C24_ValidClustersAscending == [](C24_HandedOver) /\ [][C24_ProcessedInOrder]_vars
\* Both clusters were handed over and gave regions, with a threshold that a
\* third kind of normal would have failed.
C24_Witness ==
    /\ pi_pc = "done"
    /\ valid_indices = <<0, 1>>
    /\ {out_valid_indices_dict[g] : g \in DOMAIN out_valid_indices_dict} = {0, 1}
    /\ plane_threshold_degrees = 90

\* ========================================================================
\* pipeline.py: run_matching_pipeline over the difficulties of a scene, with
\* matching_pairs or matching_limit: which pairs are taken up
\* ------------------------------------------------------------------------
\* A scene lists image pairs by difficulty (difficulties count from 0). The
\* lists are given by their lengths; the key of a pair and what its
\* processing does are read when the loop reaches the pair. matching_limit
\* and processed_pairs are the variables of the pipeline above.
PairKeys == {"a", "b"}
SceneLengths == {1, 2}
\* self.matching_difficulties as configured, before Pipeline.start
ConfiguredDifficulties == {{0}, {0, 1}, {1, 2}}
MatchingPairs == {<<>>} \cup {<<S>> : S \in SUBSET PairKeys}
\* The lists a set can be turned into by list(set) (line 327).
ListsOf(S) ==
    {q \in UNION {[1 .. n -> S] : n \in {Cardinality(S)}} :
        \A i, j \in 1 .. Len(q) : i # j => q[i] # q[j]}

\* Pipeline.start, lines 320-327: every difficulty of the scene when
\* matching_pairs is given, else the configured ones the scene has.
StartDifficulties(length, pairs, configured) ==
    IF pairs # <<>>
    THEN 0 .. length - 1
    ELSE configured \cap (0 .. length - 1)

\* Variant for comparison: a pair already taken up is taken up again
SkippedIfNotSelected(pair_key) ==
    matching_pairs # <<>> /\ pair_key \notin matching_pairs[1]
\* The `continue` of lines 1048-1050.
Skipped(pair_key) ==
    /\ matching_pairs # <<>>
    /\ pair_key \notin matching_pairs[1] \/ pair_key \in already_processed

\* Variant for comparison: every pair taken up counts toward the limit
CountsAlways(outcome) == TRUE
\* processed_pairs = processed_pairs + 1 (line 1104) is reached only when
\* nothing was raised before it in the try of lines 1062-1104.
CountsTowardLimit(outcome) == outcome = Processed

\* The `break` of lines 1054-1056.
PairLimitReached ==
    matching_pairs = <<>> /\ matching_limit # -1 /\ processed_pairs >= matching_limit

mpOthers == <<ccVars, kmVars, clVars, dmVars, vtVars, lmVars, rrVars, dhVars,
              pl_mode, pl_items, pl_idx, pl_entered, pl_completed, stats_saved,
              pl_pc, piVars, kpVars>>
mpParams == <<scene_length, matching_difficulties, matching_pairs, matching_limit,
              mp_lens>>
InitMatching == AllIdle

\* run_matching_pipeline is entered: Pipeline.start (lines 320-327) and
\* lines 1033-1036.
StartMatching ==
    /\ mp_pc = "idle"
    /\ scene_length' \in SceneLengths
    /\ mp_lens' \in [1 .. scene_length' -> 0 .. MaxItems]
    /\ matching_pairs' \in MatchingPairs
    /\ matching_limit' \in -1 .. MaxItems - 1
    /\ \E configured \in ConfiguredDifficulties :
          matching_difficulties' \in
              ListsOf(StartDifficulties(scene_length', matching_pairs', configured))
    /\ already_processed' = {}
    /\ mp_taken' = [k \in PairKeys |-> <<>>]
    /\ mp_d' = 0
    /\ mp_pc' = "difficulties"
    /\ UNCHANGED <<processed_pairs, mp_idx, mp_skipped, mp_failed, mp_completed,
                   mpOthers>>

\* The next difficulty is entered (lines 1038-1044).
EnterDifficulty ==
    /\ mp_pc = "difficulties"
    /\ mp_d < Len(matching_difficulties)
    /\ mp_d' = mp_d + 1
    /\ processed_pairs' = 0
    /\ mp_idx' = 1
    /\ mp_completed' = 0
    /\ mp_pc' = "pairs"
    /\ UNCHANGED <<mpParams, already_processed, mp_taken, mp_skipped, mp_failed,
                   mpOthers>>

\* The difficulty of the loop of line 1038.
Difficulty == matching_difficulties[mp_d]
\* One pass of the loop over the pairs of the difficulty (lines 1045-1116).
NextPair ==
    /\ mp_pc = "pairs"
    /\ mp_idx <= mp_lens[Difficulty + 1]
    /\ \E pair_key \in PairKeys, outcome \in PairOutcomes :
          IF Skipped(pair_key)
          THEN \* continue (line 1050)
               /\ mp_skipped' = mp_skipped \cup {<<pair_key, Difficulty>>}
               /\ mp_idx' = mp_idx + 1
               /\ UNCHANGED <<already_processed, processed_pairs, mp_taken,
                              mp_failed, mp_completed, mp_pc>>
          ELSE IF PairLimitReached
          THEN \* break (line 1056); the statistics of the difficulty are
               \* written (lines 1118-1120)
               /\ mp_pc' = "difficulties"
               /\ UNCHANGED <<already_processed, processed_pairs, mp_idx, mp_taken,
                              mp_skipped, mp_failed, mp_completed>>
          ELSE \* the pair is taken up (lines 1052, 1058-1110)
               /\ already_processed' =
                      IF matching_pairs # <<>>
                      THEN already_processed \cup {pair_key}
                      ELSE already_processed
               /\ mp_taken' =
                      [mp_taken EXCEPT ![pair_key] = Append(@, Difficulty)]
               /\ processed_pairs' =
                      IF CountsTowardLimit(outcome)
                      THEN processed_pairs + 1 ELSE processed_pairs
               /\ mp_completed' =
                      IF outcome = Processed THEN mp_completed + 1 ELSE mp_completed
               /\ mp_failed' =
                      IF outcome = Processed THEN mp_failed
                      ELSE mp_failed \cup {pair_key}
               /\ mp_idx' = mp_idx + 1
               /\ UNCHANGED <<mp_skipped, mp_pc>>
    /\ UNCHANGED <<mpParams, mp_d, mpOthers>>

\* The list of the difficulty is at its end; the statistics of the
\* difficulty are written (lines 1118-1120).
EndOfPairs ==
    /\ mp_pc = "pairs"
    /\ mp_idx > mp_lens[Difficulty + 1]
    /\ mp_pc' = "difficulties"
    /\ UNCHANGED <<mpParams, already_processed, processed_pairs, mp_d, mp_idx,
                   mp_taken, mp_skipped, mp_failed, mp_completed, mpOthers>>

\* The loop over the difficulties is at its end (line 1122).
EndOfDifficulties ==
    /\ mp_pc = "difficulties"
    /\ mp_d = Len(matching_difficulties)
    /\ mp_pc' = "done"
    /\ UNCHANGED <<mpParams, already_processed, processed_pairs, mp_d, mp_idx,
                   mp_taken, mp_skipped, mp_failed, mp_completed, mpOthers>>

NextMatching ==
    \/ StartMatching \/ EnterDifficulty \/ NextPair \/ EndOfPairs
    \/ EndOfDifficulties
SpecMatching == InitMatching /\ [][NextMatching]_vars

\* ------------------------------------------------------------------------
\* Claims about the pairs taken up
\* ------------------------------------------------------------------------
\* C28: with matching_pairs set, over all difficulties of a run each pair key
\* is taken up for processing at most once, also when it is listed under
\* several difficulties or its processing failed, and a pair whose key is not
\* in matching_pairs is never processed.
C28_EachSelectedPairOnce ==
    (mp_pc # "idle" /\ matching_pairs # <<>>) =>
        \A k \in PairKeys :
            /\ Len(mp_taken[k]) <= 1
            /\ k \notin matching_pairs[1] => mp_taken[k] = <<>>
\* A selected pair failed under one difficulty and was passed over under
\* another one, and a pair that is not selected was passed over.
C28_Witness ==
    /\ mp_pc = "done"
    /\ matching_pairs # <<>>
    /\ \E k \in PairKeys :
          /\ Len(mp_taken[k]) = 1
          /\ k \in mp_failed
          /\ \E d \in 0 .. scene_length - 1 :
                d # mp_taken[k][1] /\ <<k, d>> \in mp_skipped
    /\ \E k \in PairKeys :
          k \notin matching_pairs[1] /\ \E d \in 0 .. scene_length - 1 : <<k, d>> \in mp_skipped

\* C29: with matching_pairs unset and matching_limit = L, at most L pairs of
\* a difficulty are processed to the end; the counter restarts at 0 for every
\* difficulty; a pair whose processing raised does not count and the loop goes
\* on, and the loop over a difficulty ends only after L successes or at the
\* end of the list.
LimitApplies == mp_pc # "idle" /\ matching_pairs = <<>> /\ matching_limit # -1
C29_AtMostLimit == LimitApplies => mp_completed <= matching_limit
C29_Step ==
    LimitApplies =>
        /\ mp_d' # mp_d => processed_pairs' = 0
        /\ (mp_taken' # mp_taken /\ mp_completed' = mp_completed) =>
              /\ processed_pairs' = processed_pairs
              /\ mp_pc' = "pairs"
              /\ mp_idx' = mp_idx + 1
        /\ (mp_pc = "pairs" /\ mp_pc' = "difficulties") =>
              \/ mp_idx > mp_lens[Difficulty + 1]
              \/ mp_completed = matching_limit
C29_LimitCountsSuccesses == [](C29_AtMostLimit) /\ [][C29_Step]_vars
\* The limit ended the loop over the second difficulty before the end of its
\* list, after a pair had failed, and a pair was processed under both
\* difficulties.
C29_Witness ==
    /\ mp_pc = "difficulties"
    /\ matching_pairs = <<>>
    /\ matching_limit >= 1
    /\ mp_d = 2
    /\ mp_completed = matching_limit
    /\ mp_idx <= mp_lens[Difficulty + 1]
    /\ mp_idx > matching_limit + 1
    /\ mp_failed # {}
    /\ \E k \in PairKeys : Len(mp_taken[k]) >= 2 /\ mp_taken[k][1] # mp_taken[k][Len(mp_taken[k])]

\* ========================================================================
\* affnet.py: get_kpts_normals_indices
\* ------------------------------------------------------------------------
\* A keypoint is <<x, y>> in halves of a pixel, so that ties of the rounding
\* occur: <<3, -3>> is the point (1.5, -1.5).
MaxKpts == 2
KeyPoints ==
    {<<-3, 1>>, <<1, 3>>, <<3, 2 * Height + 2>>, <<2 * Width - 1, -3>>,
     <<2 * Width + 2, 2 * Height - 1>>, <<4, 4>>}
KeyPointLists == UNION {[1 .. n -> KeyPoints] : n \in 1 .. MaxKpts}
\* The component images of the calls: IDs 0 (background), 1 and 2 in stripes.
ComponentImages ==
    {[p \in Pixels |-> (a * Row(p) + b * Col(p)) % 3] : a \in {0, 1}, b \in {0, 1, 2}}
\* valid_components_dict: some of the IDs 1 and 2, each with a cluster index.
ComponentDicts ==
    UNION {[keys -> {0, 1}] : keys \in SUBSET {1, 2}}

\* torch.round (line 265) of h / 2: the nearest integer, a tie goes to the
\* even one.
RoundHalf(h) ==
    IF h % 2 = 0 THEN h \div 2
    ELSE IF ((h - 1) \div 2) % 2 = 0 THEN (h - 1) \div 2 ELSE (h - 1) \div 2 + 1
\* torch.clamp(v, lo, hi) (lines 266-267)
Clamp(v, lo, hi) == IF v < lo THEN lo ELSE IF v > hi THEN hi ELSE v
\* coords of a keypoint after lines 264-268, as <<row, column>>
Coords(kpt) ==
    <<Clamp(RoundHalf(kpt[2]), 0, Height - 1), Clamp(RoundHalf(kpt[1]), 0, Width - 1)>>

\* Variant for comparison: a keypoint on no valid component gets cluster 0
NormalIndexOrZero(dict, component) ==
    IF component \in DOMAIN dict THEN dict[component] ELSE 0
\* Lines 271-273: -1, overwritten by the cluster index of the keypoint's
\* component if that is a key of the dict.
NormalIndexOf(dict, component) ==
    IF component \in DOMAIN dict THEN dict[component] ELSE -1

kpOthers == <<ccVars, kmVars, clVars, dmVars, vtVars, lmVars, rrVars, dhVars,
              plVars, piVars, mpVars>>
InitKpts == AllIdle

\* get_kpts_normals_indices(components_indices, valid_components_dict,
\* laffs_no_scale) (lines 260-277)
get_kpts_normals_indices ==
    /\ kp_pc = "idle"
    /\ components_indices' \in ComponentImages
    /\ valid_components_dict' \in ComponentDicts
    /\ laffs_no_scale' \in KeyPointLists
    /\ kp_read' = [i \in 1 .. Len(laffs_no_scale') |-> Coords(laffs_no_scale'[i])]
    /\ normals_indices' =
           [i \in 1 .. Len(laffs_no_scale') |->
               NormalIndexOf(valid_components_dict',
                             components_indices'[Pix(Coords(laffs_no_scale'[i])[1],
                                                     Coords(laffs_no_scale'[i])[2])])]
    /\ kp_pc' = "done"
    /\ UNCHANGED kpOthers

NextKpts == get_kpts_normals_indices
SpecKpts == InitKpts /\ [][NextKpts]_vars

\* ------------------------------------------------------------------------
\* Claims about get_kpts_normals_indices
\* ------------------------------------------------------------------------
\* r is the integer nearest to h / 2, clamped to 0 .. size - 1
RoundedAndClamped(r, h, size) ==
    \E n \in -(Height + Width) .. 2 * (Height + Width) :
        /\ 2 * n - h \in {-1, 0, 1}
        /\ r = IF n < 0 THEN 0 ELSE IF n > size - 1 THEN size - 1 ELSE n

\* C30: get_kpts_normals_indices never reads outside the component image:
\* each keypoint coordinate is rounded and clamped to [0, width - 1] x
\* [0, height - 1], and the value returned for a keypoint is
\* valid_components_dict[c] if the component ID c at its pixel is a key of
\* valid_components_dict, and -1 otherwise (so the background ID 0 gives -1).
C30_KeypointsStayInside ==
    kp_pc = "done" =>
        /\ Len(normals_indices) = Len(laffs_no_scale)
        /\ \A i \in 1 .. Len(laffs_no_scale) :
              LET row == kp_read[i][1]
                  col == kp_read[i][2]
                  c == components_indices[row * Width + col]
              IN /\ row \in 0 .. Height - 1 /\ col \in 0 .. Width - 1
                 /\ RoundedAndClamped(col, laffs_no_scale[i][1], Width)
                 /\ RoundedAndClamped(row, laffs_no_scale[i][2], Height)
                 /\ c \in DOMAIN valid_components_dict
                       => normals_indices[i] = valid_components_dict[c]
                 /\ c \notin DOMAIN valid_components_dict => normals_indices[i] = -1
\* One keypoint was clamped and lies on the background, and another one lies
\* on a valid component.
C30_Witness ==
    /\ kp_pc = "done"
    /\ \E i, j \in 1 .. Len(laffs_no_scale) :
          /\ laffs_no_scale[i][1] < 0 \/ laffs_no_scale[i][2] > 2 * Height
          /\ components_indices[kp_read[i][1] * Width + kp_read[i][2]] = 0
          /\ normals_indices[i] = -1
          /\ normals_indices[j] # -1
====
